---- MODULE Spec2Model ----
(***************************************************************************)
(* Simplex-based semantic interpolation of PaoloTCS/voronoi5.              *)
(*                                                                         *)
(* Numbers: the JavaScript code computes in IEEE doubles.  The model uses  *)
(* exact rationals <<n, d>> (d >= 0, reduced); <<0,0>> is NaN and          *)
(* <<1,0>>, <<-1,0>> are +Infinity and -Infinity, so that a division by    *)
(* zero gives what JavaScript gives.  Coordinates are integers of a grid.  *)
(***************************************************************************)
EXTENDS Integers, Sequences, FiniteSets, TLC

VARIABLES
  \* a SemanticTessellation: the fields of the object
  documents, coordinates, triangles, delaunay, initialized, useManualTriangulation,
  \* what the last call on the tessellation was, and what it returned
  call,
  \* one simplex on its own: its kind ("triangle" or "tetrahedron"), the
  \* coordinates of its vertices, its documents
  kind, simplexVertices, docSet,
  \* the last function applied to the simplex, its point argument and its results
  op, queryPoint, baryWeights, isInside, semantics,
  \* the state of the MissingDocumentFinder component shown for a result
  finder,
  \* SemanticTriangulationView: its tessellation state ("null", or "object" for
  \* the tessellation whose fields are the variables above), the
  \* SemanticTriangle objects allocated so far (an object's address is its
  \* position), the addresses held by this.triangles, and the tessellations
  \* built before the current one
  tessellation, heap, triangleRefs, priorBuilds,
  \* what delaunay.find has answered for the points asked so far, and the
  \* results analyzePoint has returned to the view's handlers
  findMemo, analyses,
  \* TetrahedronVisualization: its tetrahedra state, the pairs of handlers
  \* (click, mousemove) registered on the renderer's element, each with the
  \* tetrahedron data its closure holds, the build whose objects are in the
  \* scene (0 for none), and what the handlers run by the last event passed
  \* to onPointSelected (click) or setHoverInfo (mousemove)
  tetrahedra, listeners, sceneObjects, delivered,
  \* a demo page: which one is mounted ("none", "2d" for
  \* SemanticTriangulationDemo, "3d" for TetrahedronDemo), the selectedItems
  \* of the domain context, the embedding requests awaiting their response
  \* (each the ids of its docsToEmbed, in the order the requests were sent),
  \* and the documents, coordinates, error and loading state of the page
  demo, selectedItems, inFlight, demoDocuments, demoCoordinates, demoError, demoLoading

tessVars == <<documents, coordinates, triangles, delaunay, initialized,
              useManualTriangulation, call>>

simplexVars == <<kind, simplexVertices, docSet, op, queryPoint, baryWeights, isInside, semantics>>

finderVars == <<finder>>

viewVars == <<tessellation, heap, triangleRefs, priorBuilds, findMemo, analyses>>

sceneVars == <<tetrahedra, listeners, sceneObjects, delivered>>

demoVars == <<demo, selectedItems, inFlight, demoDocuments, demoCoordinates, demoError,
              demoLoading>>

sessionVars == <<finderVars, viewVars, sceneVars, demoVars>>

vars == <<tessVars, simplexVars, sessionVars>>

(* ------------------------------ bounds -------------------------------- *)
\* coordinates of projected points and of query points lie in 0..MaxCoord
MaxCoord == 2

\* the coordinate grid in 2D and in 3D
Grid2 == (0..MaxCoord) \X (0..MaxCoord)

Grid3 == (0..MaxCoord) \X (0..MaxCoord) \X (0..MaxCoord)

\* the corners of the cube, where the tetrahedron's vertices are drawn from
Corners3 == {0, MaxCoord} \X {0, MaxCoord} \X {0, MaxCoord}

(* ---------------------- JavaScript number model ----------------------- *)
Abs(x) == IF x < 0 THEN -x ELSE x

Sign(x) == IF x < 0 THEN -1 ELSE IF x > 0 THEN 1 ELSE 0

RECURSIVE Gcd(_, _)
Gcd(a, b) == IF b = 0 THEN a ELSE Gcd(b, a % b)

\* the reduced fraction n/d; n/0 is an infinity or NaN as in JavaScript
Rat(n, d) ==
  IF d = 0 THEN <<Sign(n), 0>>
  ELSE LET g == Gcd(Abs(n), Abs(d))
       IN  <<(Sign(d) * n) \div g, Abs(d) \div g>>

NaN == <<0, 0>>

IsNaN(a) == a = NaN

IsFinite(a) == a[2] # 0

RInt(n) == <<n, 1>>

RAdd(a, b) ==
  IF IsNaN(a) \/ IsNaN(b) THEN NaN
  ELSE IF a[2] = 0 /\ b[2] = 0 THEN (IF a[1] = b[1] THEN a ELSE NaN)
  ELSE Rat(a[1] * b[2] + b[1] * a[2], a[2] * b[2])

RNeg(a) == <<-a[1], a[2]>>

RSub(a, b) == RAdd(a, RNeg(b))

RMul(a, b) == Rat(a[1] * b[1], a[2] * b[2])

\* a / b
RDiv(a, b) ==
  IF IsNaN(a) \/ IsNaN(b) THEN NaN
  ELSE Rat(a[1] * b[2] * (IF b[1] < 0 THEN -1 ELSE 1), a[2] * Abs(b[1]))

\* a <= b, a < b, a = b as JavaScript compares numbers (false on NaN)
RLe(a, b) == ~IsNaN(a) /\ ~IsNaN(b) /\ a[1] * b[2] <= b[1] * a[2]

RLt(a, b) == ~IsNaN(a) /\ ~IsNaN(b) /\ a # b /\ a[1] * b[2] <= b[1] * a[2]

\* s[lo] + ... + s[hi]
RECURSIVE RSumRange(_, _, _)
RSumRange(s, lo, hi) ==
  IF lo > hi THEN RInt(0)
  ELSE IF lo = hi THEN s[lo]
  ELSE LET mid == (lo + hi) \div 2
       IN  RAdd(RSumRange(s, lo, mid), RSumRange(s, mid + 1, hi))

RSumSeq(s) == RSumRange(s, 1, Len(s))

(* ------------------------- vectors (THREE.Vector3) -------------------- *)
subVectors(a, b) == <<a[1] - b[1], a[2] - b[2], a[3] - b[3]>>

crossVectors(a, b) ==
  <<a[2] * b[3] - a[3] * b[2], a[3] * b[1] - a[1] * b[3], a[1] * b[2] - a[2] * b[1]>>

dot(a, b) == a[1] * b[1] + a[2] * b[2] + a[3] * b[3]

(* -------------------- SemanticTriangle: barycentric ------------------- *)
\* Math.abs(denominator) < 0.0001 is Math.abs(denominator) * DegenerateInv < 1
DegenerateInv == 10000

\* the literal [0.33, 0.33, 0.34] returned for invalid or degenerate input
DefaultWeights == <<Rat(33, 100), Rat(33, 100), Rat(34, 100)>>

\* the determinant of the two-equation solve
Denominator(vertices) ==
  LET v1 == vertices[1]
      v2 == vertices[2]
      v3 == vertices[3]
  IN  (v2[2] - v3[2]) * (v1[1] - v3[1]) + (v3[1] - v2[1]) * (v1[2] - v3[2])

\* faulty variant: the second weight uses v2 where the code uses v1
CalculateBarycentricCoordinates_w2(point, vertices) ==
  IF Len(vertices) # 3 THEN DefaultWeights
  ELSE LET v1 == vertices[1]
           v2 == vertices[2]
           v3 == vertices[3]
           denominator == Denominator(vertices)
       IN  IF Abs(denominator) * DegenerateInv < 1 THEN DefaultWeights
           ELSE LET w1 == Rat((v2[2] - v3[2]) * (point[1] - v3[1])
                              + (v3[1] - v2[1]) * (point[2] - v3[2]), denominator)
                    w2 == Rat((v3[2] - v2[2]) * (point[1] - v3[1])
                              + (v1[1] - v3[1]) * (point[2] - v3[2]), denominator)
                    w3 == RSub(RSub(RInt(1), w1), w2)
                IN  <<w1, w2, w3>>

\* SemanticTriangle.calculateBarycentricCoordinates(point, vertices)
CalculateBarycentricCoordinates(point, vertices) ==
  IF Len(vertices) # 3 THEN DefaultWeights
  ELSE LET v1 == vertices[1]
           v2 == vertices[2]
           v3 == vertices[3]
           denominator == Denominator(vertices)
       IN  IF Abs(denominator) * DegenerateInv < 1 THEN DefaultWeights
           ELSE LET w1 == Rat((v2[2] - v3[2]) * (point[1] - v3[1])
                              + (v3[1] - v2[1]) * (point[2] - v3[2]), denominator)
                    w2 == Rat((v3[2] - v1[2]) * (point[1] - v3[1])
                              + (v1[1] - v3[1]) * (point[2] - v3[2]), denominator)
                    w3 == RSub(RSub(RInt(1), w1), w2)
                IN  <<w1, w2, w3>>

\* SemanticTriangle.isPointInside(point, vertices)
IsPointInside(point, vertices) ==
  LET w == CalculateBarycentricCoordinates(point, vertices)
  IN  /\ RLe(RInt(0), w[1]) /\ RLe(RInt(0), w[2]) /\ RLe(RInt(0), w[3])
      /\ RLe(w[1], RInt(1)) /\ RLe(w[2], RInt(1)) /\ RLe(w[3], RInt(1))

(* ------------------- tetrahedron: inside test, weights ---------------- *)
\* signCheck(p, a, b, c) = (p - a) . ((b - a) x (c - a))
signCheck(p, a, b, c) ==
  dot(subVectors(p, a), crossVectors(subVectors(b, a), subVectors(c, a)))

\* faulty variant: the fourth face is taken with the opposite winding
isPointInsideTetrahedron_winding(point, v0, v1, v2, v3) ==
  LET sign1 == signCheck(point, v0, v1, v2)
      sign2 == signCheck(point, v0, v2, v3)
      sign3 == signCheck(point, v0, v3, v1)
      sign4 == signCheck(point, v1, v2, v3)
      allNegativeOrZero == sign1 <= 0 /\ sign2 <= 0 /\ sign3 <= 0 /\ sign4 <= 0
      allPositiveOrZero == sign1 >= 0 /\ sign2 >= 0 /\ sign3 >= 0 /\ sign4 >= 0
  IN  allNegativeOrZero \/ allPositiveOrZero

\* isPointInsideTetrahedron(point, v0, v1, v2, v3)
isPointInsideTetrahedron(point, v0, v1, v2, v3) ==
  LET sign1 == signCheck(point, v0, v1, v2)
      sign2 == signCheck(point, v0, v2, v3)
      sign3 == signCheck(point, v0, v3, v1)
      sign4 == signCheck(point, v1, v3, v2)
      allNegativeOrZero == sign1 <= 0 /\ sign2 <= 0 /\ sign3 <= 0 /\ sign4 <= 0
      allPositiveOrZero == sign1 >= 0 /\ sign2 >= 0 /\ sign3 >= 0 /\ sign4 >= 0
  IN  allNegativeOrZero \/ allPositiveOrZero

\* Math.abs(a x b . c) / 6
SubVolume(a, b, c) == Rat(Abs(dot(crossVectors(a, b), c)), 6)

\* faulty variant: the weights are normalised by the signed volume of the tetrahedron
calculateBarycentricCoordinates3D_signed(point, vertices) ==
  IF Len(vertices) # 4 THEN <<RInt(0), RInt(0), RInt(0), RInt(0)>>
  ELSE LET v0 == subVectors(vertices[2], vertices[1])
           v1 == subVectors(vertices[3], vertices[1])
           v2 == subVectors(vertices[4], vertices[1])
           volume == Rat(dot(crossVectors(v0, v1), v2), 6)
           volume0 == SubVolume(subVectors(point, vertices[2]),
                                subVectors(point, vertices[3]),
                                subVectors(point, vertices[4]))
           volume1 == SubVolume(subVectors(vertices[1], point),
                                subVectors(vertices[3], point),
                                subVectors(vertices[4], point))
           volume2 == SubVolume(subVectors(vertices[1], point),
                                subVectors(vertices[2], point),
                                subVectors(vertices[4], point))
           volume3 == SubVolume(subVectors(vertices[1], point),
                                subVectors(vertices[2], point),
                                subVectors(vertices[3], point))
       IN  <<RDiv(volume0, volume), RDiv(volume1, volume),
             RDiv(volume2, volume), RDiv(volume3, volume)>>

\* calculateBarycentricCoordinates3D(point, vertices)
calculateBarycentricCoordinates3D(point, vertices) ==
  IF Len(vertices) # 4 THEN <<RInt(0), RInt(0), RInt(0), RInt(0)>>
  ELSE LET volume0 == SubVolume(subVectors(point, vertices[2]),
                                subVectors(point, vertices[3]),
                                subVectors(point, vertices[4]))
           volume1 == SubVolume(subVectors(vertices[1], point),
                                subVectors(vertices[3], point),
                                subVectors(vertices[4], point))
           volume2 == SubVolume(subVectors(vertices[1], point),
                                subVectors(vertices[2], point),
                                subVectors(vertices[4], point))
           volume3 == SubVolume(subVectors(vertices[1], point),
                                subVectors(vertices[2], point),
                                subVectors(vertices[3], point))
           totalVolume == RAdd(RAdd(volume0, volume1), RAdd(volume2, volume3))
       IN  <<RDiv(volume0, totalVolume), RDiv(volume1, totalVolume),
             RDiv(volume2, totalVolume), RDiv(volume3, totalVolume)>>

(* ----------------------------- docs ------------------------------ *)
\* A document is [id, hasEmbedding, embedding]: doc.embedding is missing
\* (undefined) when hasEmbedding is FALSE, and else an array of numbers.
Doc(i, has, e) == [id |-> i, hasEmbedding |-> has, embedding |-> e]

\* length of the vector generateEmbedding returns
EmbeddingDim == 128

\* generateEmbedding(document) for a document without content: 128 zeros.
\* (A document with content gets a normalised keyword vector of the same
\* length; the docs of this model carry no content.)
generateEmbedding(doc) == [j \in 1..EmbeddingDim |-> 0]

(* ----------------------- cosine similarity ---------------------------- *)
\* A similarity is [kind, sgn, sq]: kind "null" is the value null, kind "num"
\* is the number sq, and kind "cos" is (sgn * sqrt(sq) + 1) / 2, where
\* sgn * sqrt(sq) is the cosine dot / (sqrt(normA) * sqrt(normB)).
SimNull == [kind |-> "null", sgn |-> 0, sq |-> RInt(0)]

SimNum(r) == [kind |-> "num", sgn |-> 0, sq |-> r]

DotProduct(a, b) == RSumSeq([j \in 1..Len(a) |-> RMul(a[j], b[j])])

\* an array of integers as an array of rationals
RVec(e) == [j \in 1..Len(e) |-> RInt(e[j])]

\* faulty variant: the norms are not tested for 0 before the division
calculateSimilarity_nozero(vec1, vec2) ==
  IF Len(vec1) # Len(vec2) THEN SimNum(RInt(0))
  ELSE LET dotProduct == DotProduct(vec1, vec2)
           normA == DotProduct(vec1, vec1)
           normB == DotProduct(vec2, vec2)
       IN  [kind |-> "cos", sgn |-> Sign(dotProduct[1]),
            sq |-> RDiv(RMul(dotProduct, dotProduct), RMul(normA, normB))]

\* calculateSimilarity(vec1, vec2), both arrays of rationals
calculateSimilarity(vec1, vec2) ==
  IF Len(vec1) # Len(vec2) THEN SimNum(RInt(0))
  ELSE LET dotProduct == DotProduct(vec1, vec2)
           normA == DotProduct(vec1, vec1)
           normB == DotProduct(vec2, vec2)
       IN  IF normA = RInt(0) \/ normB = RInt(0) THEN SimNum(RInt(0))
           ELSE [kind |-> "cos", sgn |-> Sign(dotProduct[1]),
                 sq |-> RDiv(RMul(dotProduct, dotProduct), RMul(normA, normB))]

(* ------------------ SemanticTriangle: the classifier ------------------ *)
HIGH == Rat(6, 10)

MEDIUM == Rat(3, 10)

LOW == Rat(1, 10)

\* Math.max(...w) and Math.min(...w): NaN when any element is NaN
RMax(w) ==
  IF \E i \in 1..Len(w) : IsNaN(w[i]) THEN NaN
  ELSE w[CHOOSE i \in 1..Len(w) : \A j \in 1..Len(w) : RLe(w[j], w[i])]

RMin(w) ==
  IF \E i \in 1..Len(w) : IsNaN(w[i]) THEN NaN
  ELSE w[CHOOSE i \in 1..Len(w) : \A j \in 1..Len(w) : RLe(w[i], w[j])]

\* w.indexOf(x), 1-based; 0 when x is not an element (the code's -1)
IndexOf(w, x) ==
  IF IsNaN(x) \/ ~\E i \in 1..Len(w) : w[i] = x THEN 0
  ELSE CHOOSE i \in 1..Len(w) : w[i] = x /\ \A j \in 1..(i - 1) : w[j] # x

\* the indices of w in the order of a stable sort by weight, largest first
SortedIndices(w) ==
  LET before(j, i) == RLt(w[i], w[j]) \/ (w[j] = w[i] /\ j < i)
      rank(i) == Cardinality({j \in 1..Len(w) : before(j, i)})
  IN  [k \in 1..Len(w) |-> CHOOSE i \in 1..Len(w) : rank(i) = k - 1]

\* A classification is [type, named]: named lists the vertices (indices) that
\* the description names, in the order it names them.
SetOperation(t, n) == [type |-> t, named |-> n]

\* faulty variant: a vertex of weight exactly LOW is not counted as an influence
interpretAsSetOperations_strict(weights) ==
  LET maxIndex == IndexOf(weights, RMax(weights))
      otherIndices == SelectSeq(<<1, 2, 3>>,
                        LAMBDA i : i # maxIndex /\ RLt(LOW, weights[i]))
      sortedIndices == SortedIndices(weights)
  IN  IF /\ \A i \in 1..3 : RLe(LOW, weights[i]) /\ RLe(weights[i], HIGH)
         /\ RLt(RSub(RMax(weights), RMin(weights)), Rat(3, 10))
      THEN SetOperation("balanced_intersection", <<1, 2, 3>>)
      ELSE IF maxIndex # 0 /\ RLe(HIGH, weights[maxIndex])
      THEN IF otherIndices = <<>>
           THEN SetOperation("single_document", <<maxIndex>>)
           ELSE SetOperation("dominant_with_influence", <<maxIndex>> \o otherIndices)
      ELSE IF /\ RLe(MEDIUM, weights[sortedIndices[1]])
              /\ RLe(MEDIUM, weights[sortedIndices[2]])
              /\ RLt(weights[sortedIndices[3]], LOW)
      THEN SetOperation("paired_intersection", <<sortedIndices[1], sortedIndices[2]>>)
      ELSE SetOperation("complex_weighted_combination", <<>>)

\* faulty variant: the pair rule accepts a third weight equal to LOW
interpretAsSetOperations_le(weights) ==
  LET maxIndex == IndexOf(weights, RMax(weights))
      otherIndices == SelectSeq(<<1, 2, 3>>,
                        LAMBDA i : i # maxIndex /\ RLe(LOW, weights[i]))
      sortedIndices == SortedIndices(weights)
  IN  IF /\ \A i \in 1..3 : RLe(LOW, weights[i]) /\ RLe(weights[i], HIGH)
         /\ RLt(RSub(RMax(weights), RMin(weights)), Rat(3, 10))
      THEN SetOperation("balanced_intersection", <<1, 2, 3>>)
      ELSE IF maxIndex # 0 /\ RLe(HIGH, weights[maxIndex])
      THEN IF otherIndices = <<>>
           THEN SetOperation("single_document", <<maxIndex>>)
           ELSE SetOperation("dominant_with_influence", <<maxIndex>> \o otherIndices)
      ELSE IF /\ RLe(MEDIUM, weights[sortedIndices[1]])
              /\ RLe(MEDIUM, weights[sortedIndices[2]])
              /\ RLe(weights[sortedIndices[3]], LOW)
      THEN SetOperation("paired_intersection", <<sortedIndices[1], sortedIndices[2]>>)
      ELSE SetOperation("complex_weighted_combination", <<>>)

\* SemanticTriangle.interpretAsSetOperations(weights)
interpretAsSetOperations(weights) ==
  LET maxIndex == IndexOf(weights, RMax(weights))
      otherIndices == SelectSeq(<<1, 2, 3>>,
                        LAMBDA i : i # maxIndex /\ RLe(LOW, weights[i]))
      sortedIndices == SortedIndices(weights)
  IN  IF /\ \A i \in 1..3 : RLe(LOW, weights[i]) /\ RLe(weights[i], HIGH)
         /\ RLt(RSub(RMax(weights), RMin(weights)), Rat(3, 10))
      THEN SetOperation("balanced_intersection", <<1, 2, 3>>)
      ELSE IF maxIndex # 0 /\ RLe(HIGH, weights[maxIndex])
      THEN IF otherIndices = <<>>
           THEN SetOperation("single_document", <<maxIndex>>)
           ELSE SetOperation("dominant_with_influence", <<maxIndex>> \o otherIndices)
      ELSE IF /\ RLe(MEDIUM, weights[sortedIndices[1]])
              /\ RLe(MEDIUM, weights[sortedIndices[2]])
              /\ RLt(weights[sortedIndices[3]], LOW)
      THEN SetOperation("paired_intersection", <<sortedIndices[1], sortedIndices[2]>>)
      ELSE SetOperation("complex_weighted_combination", <<>>)

(* ------------- SemanticTriangle: construction and semantics ----------- *)
\* faulty variant: a missing embedding is left empty instead of generated
SemanticTriangle_nogen(docA, docB, docC) ==
  LET vertices == <<docA, docB, docC>>
  IN  [vertices   |-> vertices,
       embeddings |-> [i \in 1..3 |->
                         IF vertices[i].hasEmbedding THEN vertices[i].embedding
                         ELSE <<>>],
       id         |-> <<docA.id, docB.id, docC.id>>]

\* new SemanticTriangle(docA, docB, docC): a missing embedding is replaced
\* by a generated one
SemanticTriangle(docA, docB, docC) ==
  LET vertices == <<docA, docB, docC>>
  IN  [vertices   |-> vertices,
       embeddings |-> [i \in 1..3 |->
                         IF vertices[i].hasEmbedding THEN vertices[i].embedding
                         ELSE generateEmbedding(vertices[i])],
       id         |-> <<docA.id, docB.id, docC.id>>]

\* faulty variant: the loop over the embeddings stops one short
WeightedCombination_short(weights, embeddings, length) ==
  [j \in 1..length |->
     RSumSeq([i \in 1..(Len(embeddings) - 1) |->
                RMul(weights[i], RInt(embeddings[i][j]))])]

\* combinedEmbedding[j] += weights[i] * embeddings[i][j], for all i and j
WeightedCombination(weights, embeddings, length) ==
  [j \in 1..length |->
     RSumSeq([i \in 1..Len(embeddings) |-> RMul(weights[i], RInt(embeddings[i][j]))])]

\* A semantics result: ret is "object", or "null" when nothing is returned;
\* hasCombined tells whether the object has a combinedEmbedding property;
\* localCombined is the combinedEmbedding the function computed, returned or not.
Semantics(contribs, has, combined, local, setOp) ==
  [ret |-> "object", contributions |-> contribs, hasCombined |-> has,
   combinedEmbedding |-> combined, localCombined |-> local, setOperation |-> setOp]

NoSemantics ==
  [ret |-> "null", contributions |-> <<>>, hasCombined |-> FALSE,
   combinedEmbedding |-> <<>>, localCombined |-> <<>>,
   setOperation |-> SetOperation("", <<>>)]

\* the placeholder object of getInteriorPointSemantics
UnknownSemantics(triangle, w) ==
  Semantics([i \in 1..3 |-> [id |-> triangle.vertices[i].id, weight |-> w[i],
                             similarity |-> SimNum(Rat(1, 2))]],
            TRUE, <<>>, <<>>, SetOperation("unknown", <<>>))

Thirds == <<Rat(1, 3), Rat(1, 3), Rat(1, 3)>>

\* SemanticTriangle.getInteriorPointSemantics(weights)
getInteriorPointSemantics(triangle, weights) ==
  IF Len(weights) # 3 \/ Len(triangle.embeddings) # 3
  THEN UnknownSemantics(triangle, Thirds)
  ELSE LET sum == RSumSeq(weights)
       IN  IF RLt(<<Abs(sum[1]) * DegenerateInv, sum[2]>>, RInt(1))
           THEN UnknownSemantics(triangle, Thirds)
           ELSE
    LET normalizedWeights == [i \in 1..3 |-> RDiv(weights[i], sum)]
        embeddingLength == Len(triangle.embeddings[1])
    IN  IF \/ embeddingLength = 0
           \/ \E i \in 1..3 : Len(triangle.embeddings[i]) # embeddingLength
        THEN UnknownSemantics(triangle, normalizedWeights)
        ELSE
    LET combinedEmbedding ==
          WeightedCombination(normalizedWeights, triangle.embeddings, embeddingLength)
        setOperation == interpretAsSetOperations(normalizedWeights)
        similarities == [i \in 1..3 |->
                           calculateSimilarity(combinedEmbedding,
                                               RVec(triangle.embeddings[i]))]
    IN  Semantics([i \in 1..3 |-> [id |-> triangle.vertices[i].id,
                                   weight |-> normalizedWeights[i],
                                   similarity |-> similarities[i]]],
                  TRUE, combinedEmbedding, combinedEmbedding, setOperation)

(* ---------------- tetrahedron: semantic interpolation ----------------- *)
\* faulty variant: the positional mix carries equal weights
PositionalMix_equal(baryCoords, docs, t) ==
  Semantics([i \in 1..4 |-> [id |-> docs[i].id, weight |-> Rat(1, 4),
                             similarity |-> SimNull]],
            FALSE, <<>>, <<>>, SetOperation(t, <<>>))

\* the positional mix returned when the embeddings cannot be used
PositionalMix(baryCoords, docs, t) ==
  Semantics([i \in 1..4 |-> [id |-> docs[i].id, weight |-> baryCoords[i],
                             similarity |-> SimNull]],
            FALSE, <<>>, <<>>, SetOperation(t, <<>>))

\* faulty variant: the pair rule looks at the smallest weight
OperationType_smallest(baryCoords) ==
  LET maxIndex == IndexOf(baryCoords, RMax(baryCoords))
      sorted == SortedIndices(baryCoords)
  IN  IF maxIndex # 0 /\ RLt(Rat(6, 10), baryCoords[maxIndex])
      THEN SetOperation("dominant", <<maxIndex>>)
      ELSE IF \A i \in 1..4 : RLt(Rat(2, 10), baryCoords[i])
      THEN SetOperation("balanced_intersection", <<>>)
      ELSE IF /\ RLt(Rat(8, 10), RAdd(baryCoords[sorted[1]], baryCoords[sorted[2]]))
              /\ RLt(baryCoords[sorted[4]], Rat(1, 10))
      THEN SetOperation("paired_documents", <<sorted[1], sorted[2]>>)
      ELSE SetOperation("complex_mix", <<>>)

\* the operation type computed from the four weights
OperationType(baryCoords) ==
  LET maxIndex == IndexOf(baryCoords, RMax(baryCoords))
      sorted == SortedIndices(baryCoords)
  IN  IF maxIndex # 0 /\ RLt(Rat(6, 10), baryCoords[maxIndex])
      THEN SetOperation("dominant", <<maxIndex>>)
      ELSE IF \A i \in 1..4 : RLt(Rat(2, 10), baryCoords[i])
      THEN SetOperation("balanced_intersection", <<>>)
      ELSE IF /\ RLt(Rat(8, 10), RAdd(baryCoords[sorted[1]], baryCoords[sorted[2]]))
              /\ RLt(baryCoords[sorted[3]], Rat(1, 10))
      THEN SetOperation("paired_documents", <<sorted[1], sorted[2]>>)
      ELSE SetOperation("complex_mix", <<>>)

\* calculateSemanticInterpolation(baryCoords, docs)
calculateSemanticInterpolation(baryCoords, docs) ==
  IF Len(docs) # 4 \/ Len(baryCoords) # 4 THEN NoSemantics
  ELSE LET present == SelectSeq(docs, LAMBDA d : d.hasEmbedding)
           embeddings == [i \in 1..Len(present) |-> present[i].embedding]
       IN  IF Len(embeddings) # 4 \/ \E i \in 1..Len(embeddings) : Len(embeddings[i]) = 0
           THEN PositionalMix(baryCoords, docs, "positional_mix")
           ELSE IF \E i \in 1..4 : Len(embeddings[i]) # Len(embeddings[1])
           THEN PositionalMix(baryCoords, docs, "positional_mix (invalid embedding)")
           ELSE
    LET combinedEmbedding ==
          WeightedCombination(baryCoords, embeddings, Len(embeddings[1]))
        similarities == [i \in 1..4 |->
                           calculateSimilarity(combinedEmbedding, RVec(embeddings[i]))]
    IN  Semantics([i \in 1..4 |-> [id |-> docs[i].id, weight |-> baryCoords[i],
                                   similarity |-> similarities[i]]],
                  FALSE, <<>>, combinedEmbedding, OperationType(baryCoords))

(* ------------------ one simplex: inputs and operations ---------------- *)
\* The functions of this section are pure: a behaviour draws one simplex and
\* applies one function to one point (op = "none" until it has).
\* embeddings of equal length, of dimension 2 and of dimension 1
PlainEmbedding(i) ==
  CASE i = 1 -> <<1, 0>> [] i = 2 -> <<0, 1>> [] i = 3 -> <<1, 1>> [] OTHER -> <<2, 1>>

ShortEmbedding(i) ==
  CASE i = 1 -> <<1>> [] i = 2 -> <<2>> [] i = 3 -> <<0>> [] OTHER -> <<1>>

\* n documents whose embeddings are all present and of one length
GoodDocs(n) ==
  { [i \in 1..n |-> Doc(i, TRUE, PlainEmbedding(i))],
    [i \in 1..n |-> Doc(i, TRUE, ShortEmbedding(i))] }

\* n documents of which one (or every one) has a missing, an empty or a
\* shorter embedding
BadDocs(n) ==
  { [i \in 1..n |-> IF i # j THEN Doc(i, TRUE, PlainEmbedding(i))
                    ELSE CASE bad = "missing" -> Doc(i, FALSE, <<>>)
                           [] bad = "empty"   -> Doc(i, TRUE, <<>>)
                           [] OTHER           -> Doc(i, TRUE, <<1>>)]
      : j \in 1..n, bad \in {"missing", "empty", "short"} }
  \cup { [i \in 1..n |-> Doc(i, FALSE, <<>>)] }

\* the simplex the documents with unusable embeddings are placed on
UnitTriangle == <<<<0, 0>>, <<MaxCoord, 0>>, <<0, MaxCoord>>>>

UnitTetrahedron ==
  <<<<0, 0, 0>>, <<MaxCoord, 0, 0>>, <<0, MaxCoord, 0>>, <<0, 0, MaxCoord>>>>

NoPoint == <<>>

NoWeights == <<>>

\* no MissingDocumentFinder has been rendered
NoFinder == [matchingDocuments |-> <<>>, searchTerms |-> <<>>, searchQuery |-> ""]

FinderIdle == finder = NoFinder

\* no SemanticTriangulationView has been mounted
ViewIdle ==
  /\ tessellation = "null"
  /\ heap = <<>>
  /\ triangleRefs = <<>>
  /\ priorBuilds = <<>>
  /\ findMemo = {}
  /\ analyses = {}

\* no TetrahedronVisualization has created a tetrahedron
SceneIdle ==
  /\ tetrahedra = <<>>
  /\ listeners = <<>>
  /\ sceneObjects = 0
  /\ delivered = <<>>

\* no demo page is mounted
DemoIdle ==
  /\ demo = "none"
  /\ selectedItems = <<>>
  /\ inFlight = <<>>
  /\ demoDocuments = <<>>
  /\ demoCoordinates = [given |-> FALSE, has |-> {}, at |-> <<>>]
  /\ demoError = "null"
  /\ demoLoading = FALSE

SessionIdle == FinderIdle /\ ViewIdle /\ SceneIdle /\ DemoIdle

\* no SemanticTessellation has been constructed
NoTessellation ==
  /\ documents = <<>>
  /\ coordinates = [given |-> FALSE, has |-> {}, at |-> <<>>]
  /\ triangles = <<>>
  /\ delaunay = [built |-> FALSE, points |-> <<>>, triangles |-> <<>>]
  /\ initialized = FALSE
  /\ useManualTriangulation = FALSE
  /\ call = [name |-> "none", point |-> NoPoint, found |-> 0, ret |-> "none",
             weights |-> NoWeights, semantics |-> NoSemantics]

\* the tessellation is not part of a single-simplex scenario
TessIdle ==
  /\ SessionIdle
  /\ NoTessellation

SimplexInit ==
  /\ TessIdle
  /\ \/ /\ kind = "triangle"
        /\ \/ simplexVertices \in Grid2 \X Grid2 \X Grid2 /\ docSet \in GoodDocs(3)
           \/ simplexVertices = UnitTriangle /\ docSet \in BadDocs(3)
     \/ /\ kind = "tetrahedron"
        /\ \/ /\ simplexVertices \in {<<0, 0, 0>>} \X Corners3 \X Corners3 \X Corners3
              /\ \A i, j \in 1..4 : i # j => simplexVertices[i] # simplexVertices[j]
              /\ docSet \in GoodDocs(4)
           \/ simplexVertices = UnitTetrahedron /\ docSet \in BadDocs(4)
  /\ op = "none"
  /\ queryPoint = NoPoint
  /\ baryWeights = NoWeights
  /\ isInside = FALSE
  /\ semantics = NoSemantics

\* triangle.calculateBarycentricCoordinates(p, vertices)
TriangleBarycentric(p) ==
  /\ kind = "triangle"
  /\ op = "none"
  /\ op' = "calculateBarycentricCoordinates"
  /\ queryPoint' = p
  /\ baryWeights' = CalculateBarycentricCoordinates(p, simplexVertices)
  /\ isInside' = FALSE
  /\ semantics' = NoSemantics
  /\ UNCHANGED <<tessVars, sessionVars, kind, simplexVertices, docSet>>

\* triangle.isPointInside(p, vertices)
TriangleIsPointInside(p) ==
  /\ kind = "triangle"
  /\ op = "none"
  /\ op' = "isPointInside"
  /\ queryPoint' = p
  /\ baryWeights' = NoWeights
  /\ isInside' = IsPointInside(p, simplexVertices)
  /\ semantics' = NoSemantics
  /\ UNCHANGED <<tessVars, sessionVars, kind, simplexVertices, docSet>>

\* new SemanticTriangle(docs).getInteriorPointSemantics(weights), on the
\* baryWeights of p: lines 228-235 of analyzePoint
TriangleSemantics(p) ==
  /\ kind = "triangle"
  /\ op = "none"
  /\ op' = "getInteriorPointSemantics"
  /\ queryPoint' = p
  /\ baryWeights' = CalculateBarycentricCoordinates(p, simplexVertices)
  /\ isInside' = FALSE
  /\ semantics' = getInteriorPointSemantics(
                    SemanticTriangle(docSet[1], docSet[2], docSet[3]), baryWeights')
  /\ UNCHANGED <<tessVars, sessionVars, kind, simplexVertices, docSet>>

\* isPointInsideTetrahedron(p, v0, v1, v2, v3)
TetraIsPointInside(p) ==
  /\ kind = "tetrahedron"
  /\ op = "none"
  /\ op' = "isPointInsideTetrahedron"
  /\ queryPoint' = p
  /\ baryWeights' = NoWeights
  /\ isInside' = isPointInsideTetrahedron(p, simplexVertices[1], simplexVertices[2],
                                          simplexVertices[3], simplexVertices[4])
  /\ semantics' = NoSemantics
  /\ UNCHANGED <<tessVars, sessionVars, kind, simplexVertices, docSet>>

\* calculateBarycentricCoordinates3D(p, vertices)
TetraBarycentric(p) ==
  /\ kind = "tetrahedron"
  /\ op = "none"
  /\ op' = "calculateBarycentricCoordinates3D"
  /\ queryPoint' = p
  /\ baryWeights' = calculateBarycentricCoordinates3D(p, simplexVertices)
  /\ isInside' = FALSE
  /\ semantics' = NoSemantics
  /\ UNCHANGED <<tessVars, sessionVars, kind, simplexVertices, docSet>>

\* p lies on the triangle a, b, c of the mesh (a face of zero area is never hit)
OnFace(p, a, b, c) ==
  LET n == crossVectors(subVectors(b, a), subVectors(c, a))
      side(u, v) == dot(crossVectors(subVectors(v, u), subVectors(p, u)), n)
  IN  /\ n # <<0, 0, 0>>
      /\ dot(subVectors(p, a), n) = 0
      /\ side(a, b) >= 0 /\ side(b, c) >= 0 /\ side(c, a) >= 0

\* raycaster.intersectObject(mesh) can return p: p is on one of the faces of
\* geometry.setIndex([0,1,2, 0,3,1, 0,2,3, 1,3,2])
OnMesh(p, v) ==
  \/ OnFace(p, v[1], v[2], v[3])
  \/ OnFace(p, v[1], v[4], v[2])
  \/ OnFace(p, v[1], v[3], v[4])
  \/ OnFace(p, v[2], v[4], v[3])

\* handleMouseClick(event), the ray hitting the mesh at p: the inside test,
\* the weights and the semantics passed to onPointSelected
handleMouseClick(p) ==
  /\ kind = "tetrahedron"
  /\ op = "none"
  /\ OnMesh(p, simplexVertices)
  /\ op' = "handleMouseClick"
  /\ queryPoint' = p
  /\ isInside' = isPointInsideTetrahedron(p, simplexVertices[1], simplexVertices[2],
                                          simplexVertices[3], simplexVertices[4])
  /\ baryWeights' = calculateBarycentricCoordinates3D(p, simplexVertices)
  /\ semantics' = calculateSemanticInterpolation(baryWeights', docSet)
  /\ UNCHANGED <<tessVars, sessionVars, kind, simplexVertices, docSet>>

(* --------------- the consumers of an analysis result ------------------ *)
\* similarity >= threshold, for a similarity that is a number
SimAtLeast(sim, threshold) ==
  LET u == RSub(RMul(RInt(2), threshold), RInt(1))
  IN  CASE sim.kind = "num" -> RLe(threshold, sim.sq)
        [] sim.kind = "cos" ->
             IF RLt(RInt(0), u) THEN sim.sgn = 1 /\ RLe(RMul(u, u), sim.sq)
             ELSE sim.sgn >= 0 \/ RLe(sim.sq, RMul(u, u))
        [] OTHER -> FALSE

\* a.similarity < b.similarity, for similarities calculateSimilarity returns
\* (the number 0, or a rescaled cosine)
SimLess(a, b) ==
  LET cos(x) == IF x.kind = "cos" THEN x ELSE [kind |-> "cos", sgn |-> 0 - 1, sq |-> RInt(1)]
      ca == cos(a)
      cb == cos(b)
  IN  IF ca.sgn # cb.sgn THEN ca.sgn < cb.sgn
      ELSE IF ca.sgn >= 0 THEN RLt(ca.sq, cb.sq)
      ELSE RLt(cb.sq, ca.sq)

\* items.sort((a, b) => b.similarity - a.similarity): stable, largest first
SortBySimilarity(items) ==
  LET before(j, i) == \/ SimLess(items[i].similarity, items[j].similarity)
                      \/ /\ ~SimLess(items[j].similarity, items[i].similarity)
                         /\ j < i
      rank(i) == Cardinality({j \in 1..Len(items) : before(j, i)})
  IN  [k \in 1..Len(items) |-> items[CHOOSE i \in 1..Len(items) : rank(i) = k - 1]]

\* findMatchingDocuments(combinedEmbedding, documents, excludeDocIds,
\* threshold, maxResults): the ids and similarities of the matches. Every
\* document asked about carries an embedding.
findMatchingDocuments(combinedEmbedding, docs, excludeDocIds, threshold, maxResults) ==
  IF Len(docs) = 0 THEN <<>>
  ELSE LET candidates == SelectSeq(docs, LAMBDA d : d.id \notin excludeDocIds)
           scored == [i \in 1..Len(candidates) |->
                        [id |-> candidates[i].id,
                         similarity |-> calculateSimilarity(combinedEmbedding,
                                                            RVec(candidates[i].embedding))]]
           kept == SortBySimilarity(
                     SelectSeq(scored, LAMBDA x : SimAtLeast(x.similarity, threshold)))
       IN  SubSeq(kept, 1, IF Len(kept) < maxResults THEN Len(kept) ELSE maxResults)

\* contributions.sort((a, b) => b.weight - a.weight): the array itself,
\* reordered, largest weight first (the sort is stable; the weights of an
\* analysis result are finite)
SortByWeight(contributions) ==
  LET order == SortedIndices([i \in 1..Len(contributions) |-> contributions[i].weight])
  IN  [k \in 1..Len(contributions) |-> contributions[order[k]]]

\* suggestSearchTerms(sem, allDocuments): what it returns and the object sem
\* as the call leaves it. The terms are the keywords of the three top
\* contributions; ret names the documents they are taken from, in order.
suggestSearchTerms(sem, allDocuments) ==
  IF sem.ret # "object" THEN [ret |-> <<>>, semantics |-> sem]
  ELSE LET sorted == SortByWeight(sem.contributions)
           topContributions == SubSeq(sorted, 1, IF Len(sorted) < 3 THEN Len(sorted) ELSE 3)
       IN  [ret |-> [i \in 1..Len(topContributions) |-> topContributions[i].id],
            semantics |-> [sem EXCEPT !.contributions = sorted]]

\* generateSearchQuery(sem): the query as [form, terms], terms being the
\* documents whose titles it joins; it sorts copies of the contributions
generateSearchQuery(sem) ==
  IF sem.ret # "object" THEN ""
  ELSE LET ids(c) == [i \in 1..Len(c) |-> c[i].id]
           sorted == SortByWeight(sem.contributions)
       IN  CASE sem.setOperation.type = "balanced_intersection" ->
                  [form |-> "all", terms |-> ids(sem.contributions)]
             [] sem.setOperation.type = "dominant_with_influence" ->
                  [form |-> "first and any other", terms |-> ids(sorted)]
             [] sem.setOperation.type = "paired_intersection" ->
                  [form |-> "first and second", terms |-> ids(SubSeq(sorted, 1, 2))]
             [] OTHER ->
                  [form |-> "any",
                   terms |-> ids(SelectSeq(sem.contributions,
                                           LAMBDA c : RLt(Rat(2, 10), c.weight)))]

\* a document of the view that is no vertex of the analysed triangle
OtherDocument == Doc(4, TRUE, PlainEmbedding(4))

\* the effect of MissingDocumentFinder, rendered with the result of an
\* analysis of the triangle: allDocuments are the documents of the view, the
\* vertices of the triangle and others; the vertices are excluded from the
\* matches
MissingDocumentFinder(others) ==
  /\ kind = "triangle"
  /\ op = "getInteriorPointSemantics"
  /\ semantics.ret = "object" /\ semantics.hasCombined
  /\ LET allDocuments == docSet \o others
         matches == findMatchingDocuments(semantics.combinedEmbedding, allDocuments,
                                          {docSet[i].id : i \in 1..3}, Rat(65, 100), 5)
         terms == suggestSearchTerms(semantics, allDocuments)
         query == generateSearchQuery(terms.semantics)
     IN  /\ semantics' = terms.semantics
         /\ finder' = [matchingDocuments |-> matches, searchTerms |-> terms.ret,
                       searchQuery |-> query]
  /\ op' = "MissingDocumentFinder"
  /\ UNCHANGED <<tessVars, viewVars, sceneVars, demoVars, kind, simplexVertices, docSet,
                 queryPoint, baryWeights, isInside>>

SimplexNext ==
  \/ \E p \in Grid2 : TriangleBarycentric(p)
  \/ \E p \in Grid2 : TriangleIsPointInside(p)
  \/ \E p \in Grid2 : TriangleSemantics(p)
  \/ \E p \in Grid3 : TetraIsPointInside(p)
  \/ \E p \in Grid3 : TetraBarycentric(p)
  \/ \E p \in Grid3 : handleMouseClick(p)
  \/ \E others \in {<<>>, <<OtherDocument>>} : MissingDocumentFinder(others)

SimplexSpec == SimplexInit /\ [][SimplexNext]_vars

(* ------------------ the classifiers on weight vectors ----------------- *)
\* the weights are the multiples of 1 / WeightSteps
WeightSteps == 20

\* the normalized weight vectors of length n: no weight negative, sum 1
WeightVectors(n) ==
  {[i \in 1..n |-> Rat(k[i], WeightSteps)] :
     k \in {c \in [1..n -> 0..WeightSteps] : RSumSeq([i \in 1..n |-> RInt(c[i])]) = RInt(WeightSteps)}}

\* a triangle or four documents, and a weight vector handed to the classifier
ClassifyInit ==
  /\ TessIdle
  /\ \/ /\ kind = "triangle"
        /\ simplexVertices = UnitTriangle
        /\ docSet = [i \in 1..3 |-> Doc(i, TRUE, PlainEmbedding(i))]
        /\ baryWeights \in WeightVectors(3) \cup {DefaultWeights}
     \/ /\ kind = "tetrahedron"
        /\ simplexVertices = UnitTetrahedron
        /\ docSet = [i \in 1..4 |-> Doc(i, TRUE, PlainEmbedding(i))]
        /\ baryWeights \in WeightVectors(4)
  /\ op = "none"
  /\ queryPoint = NoPoint
  /\ isInside = FALSE
  /\ semantics = NoSemantics

\* triangle.interpretAsSetOperations(weights)
InterpretAsSetOperations ==
  /\ kind = "triangle"
  /\ op = "none"
  /\ op' = "interpretAsSetOperations"
  /\ semantics' = Semantics(<<>>, FALSE, <<>>, <<>>, interpretAsSetOperations(baryWeights))
  /\ UNCHANGED <<tessVars, sessionVars, kind, simplexVertices, docSet, queryPoint, baryWeights, isInside>>

\* triangle.getInteriorPointSemantics(weights)
GetInteriorPointSemantics ==
  /\ kind = "triangle"
  /\ op = "none"
  /\ op' = "getInteriorPointSemantics"
  /\ semantics' = getInteriorPointSemantics(
                    SemanticTriangle(docSet[1], docSet[2], docSet[3]), baryWeights)
  /\ UNCHANGED <<tessVars, sessionVars, kind, simplexVertices, docSet, queryPoint, baryWeights, isInside>>

\* calculateSemanticInterpolation(baryCoords, documents)
CalculateSemanticInterpolation ==
  /\ kind = "tetrahedron"
  /\ op = "none"
  /\ op' = "calculateSemanticInterpolation"
  /\ semantics' = calculateSemanticInterpolation(baryWeights, docSet)
  /\ UNCHANGED <<tessVars, sessionVars, kind, simplexVertices, docSet, queryPoint, baryWeights, isInside>>

ClassifyNext ==
  \/ InterpretAsSetOperations
  \/ GetInteriorPointSemantics
  \/ CalculateSemanticInterpolation

ClassifySpec == ClassifyInit /\ [][ClassifyNext]_vars

(* ---------------- d3-delaunay: Delaunay.from, find ------------------- *)
\* The library is not part of the repository; it is modelled by its contract.
\* twice the signed area of the triangle a, b, c
Area2(a, b, c) == (b[1] - a[1]) * (c[2] - a[2]) - (c[1] - a[1]) * (b[2] - a[2])

\* d lies strictly inside the circle through a, b, c
InCircle(a, b, c, d) ==
  LET ax == a[1] - d[1]
      ay == a[2] - d[2]
      bx == b[1] - d[1]
      by == b[2] - d[2]
      cx == c[1] - d[1]
      cy == c[2] - d[2]
      det == (ax * ax + ay * ay) * (bx * cy - cx * by)
             - (bx * bx + by * by) * (ax * cy - cx * ay)
             + (cx * cx + cy * cy) * (ax * by - bx * ay)
  IN  det * Sign(Area2(a, b, c)) > 0

\* p lies in the closed triangle a, b, c (which is not flat)
InClosedTriangle(p, a, b, c) ==
  LET o1 == Area2(a, b, p) * Sign(Area2(a, b, c))
      o2 == Area2(b, c, p) * Sign(Area2(a, b, c))
      o3 == Area2(c, a, p) * Sign(Area2(a, b, c))
  IN  Area2(a, b, c) # 0 /\ o1 >= 0 /\ o2 >= 0 /\ o3 >= 0

\* the segments a-b and c-d cross in a point interior to both
ProperCross(a, b, c, d) ==
  /\ Sign(Area2(a, b, c)) * Sign(Area2(a, b, d)) < 0
  /\ Sign(Area2(c, d, a)) * Sign(Area2(c, d, b)) < 0

Edges(t) == {<<t[1], t[2]>>, <<t[2], t[3]>>, <<t[1], t[3]>>}

\* the triangles (index triples) that a Delaunay triangulation of pts may hold:
\* not flat, no other point in them, no other point inside their circle
DelaunayCandidates(pts) ==
  LET n == Len(pts)
  IN  {t \in (1..n) \X (1..n) \X (1..n) :
         /\ t[1] < t[2] /\ t[2] < t[3]
         /\ Area2(pts[t[1]], pts[t[2]], pts[t[3]]) # 0
         /\ \A m \in 1..n :
              pts[m] \notin {pts[t[1]], pts[t[2]], pts[t[3]]} =>
                 /\ ~InClosedTriangle(pts[m], pts[t[1]], pts[t[2]], pts[t[3]])
                 /\ ~InCircle(pts[t[1]], pts[t[2]], pts[t[3]], pts[m])}

\* no two triangles of T overlap, and coincident points are used once
Compatible(T, pts) ==
  /\ \A t \in T, u \in T : \A e \in Edges(t), f \in Edges(u) :
        ~ProperCross(pts[e[1]], pts[e[2]], pts[f[1]], pts[f[2]])
  /\ \A t \in T, u \in T : \A i \in 1..3, j \in 1..3 :
        pts[t[i]] = pts[u[j]] => t[i] = u[j]

\* the Delaunay triangulations of pts: the maximal sets of compatible triangles
\* (more than one when four points lie on a circle; the empty set when all
\* points are collinear, which is what the triangulator itself yields)
Triangulations(pts) ==
  LET cands == DelaunayCandidates(pts)
  IN  {T \in SUBSET cands :
         /\ Compatible(T, pts)
         /\ \A c \in cands \ T : ~Compatible(T \cup {c}, pts)}

\* the orders in which the library may list the triangles of T
TriangleOrders(T) ==
  {s \in [1..Cardinality(T) -> T] : \A i, j \in 1..Cardinality(T) : i # j => s[i] # s[j]}

\* delaunay.triangles: the point indices of the triangles, three per triangle
\* (1-based here; each triangle lists its corners by ascending index)
FlatTriangles(order) ==
  [m \in 1..(3 * Len(order)) |-> order[((m - 1) \div 3) + 1][((m - 1) % 3) + 1]]

Dist2(a, b) == (a[1] - b[1]) * (a[1] - b[1]) + (a[2] - b[2]) * (a[2] - b[2])

\* delaunay.find(x, y) returns the index of a point of pts closest to (x, y):
\* a point index, not a triangle index
DelaunayFind(pts, p) ==
  {i \in 1..Len(pts) : \A j \in 1..Len(pts) : Dist2(pts[i], p) <= Dist2(pts[j], p)}

NoDelaunay == [built |-> FALSE, points |-> <<>>, triangles |-> <<>>]

(* ----------------------- SemanticTessellation ------------------------- *)
\* bound on the number of usable documents handed to the constructor
MaxDocs == 4

\* this.coordinates[id] is defined (truthy)
HasCoordinates(coords, id) == coords.given /\ id \in coords.has

\* documents.filter(doc => doc && doc.id && this.coordinates[doc.id])
ValidDocuments(docs, coords) == SelectSeq(docs, LAMBDA d : HasCoordinates(coords, d.id))

\* faulty variant: an entry that is not of length 2 is replaced by the origin
PointsOf_pad(docs, coords) ==
  [i \in 1..Len(docs) |->
     IF Len(coords.at[docs[i].id]) = 2 THEN coords.at[docs[i].id] ELSE <<0, 0>>]

\* the points pushed by the forEach: the entries of length 2, in document order
PointsOf(docs, coords) ==
  LET good == SelectSeq(docs, LAMBDA d : Len(coords.at[d.id]) = 2)
  IN  [i \in 1..Len(good) |-> coords.at[good[i].id]]

\* the loop over delaunay.triangles: documents[index] for each corner, a
\* triangle being pushed when its three documents exist
TrianglesFrom(flat, docs) ==
  LET starts == SelectSeq([k \in 1..(Len(flat) \div 3) |-> 3 * (k - 1) + 1],
                  LAMBDA i : /\ flat[i] <= Len(docs)
                             /\ flat[i + 1] <= Len(docs)
                             /\ flat[i + 2] <= Len(docs))
  IN  [k \in 1..Len(starts) |->
         SemanticTriangle(docs[flat[starts[k]]], docs[flat[starts[k] + 1]],
                          docs[flat[starts[k] + 2]])]

NoCall ==
  [name |-> "none", point |-> <<>>, found |-> 0, ret |-> "none",
   weights |-> <<>>, semantics |-> NoSemantics]

\* bound on the number of documents of an input that are unusable
MaxBad == 1

\* the ways a document can be unusable: it is null or has no id, it has no
\* entry in the coordinates, its entry is not of length 2
BadKinds == {"noid", "nocoord", "badlen"}

\* the m-tuples of distinct grid points in lexicographic order
SortedPoints(m) ==
  {pts \in [1..m -> Grid2] :
     \A i \in 1..(m - 1) :
        \/ pts[i][1] < pts[i + 1][1]
        \/ pts[i][1] = pts[i + 1][1] /\ pts[i][2] < pts[i + 1][2]}

\* new SemanticTessellation(docs, coords): n documents of which those in B
\* are unusable; the usable ones are sorted by their distinct projected
\* points (the order of the input does not matter to the geometry, and the
\* library's triangle order is left free); coords may be null
TessInit ==
  /\ \E n \in 0..(MaxDocs + MaxBad) : \E B \in SUBSET (1..n) : \E how \in [B -> BadKinds] :
       \E pts \in SortedPoints(n - Cardinality(B)) : \E given \in BOOLEAN :
          /\ Cardinality(B) <= MaxBad
          /\ n - Cardinality(B) <= MaxDocs
          /\ ~given => B = {}
          /\ documents = [i \in 1..n |->
                            IF i \in B /\ how[i] = "noid"
                            THEN Doc(0, TRUE, PlainEmbedding(i))
                            ELSE Doc(i, TRUE, PlainEmbedding(i))]
          /\ coordinates =
               IF ~given THEN [given |-> FALSE, has |-> {}, at |-> <<>>]
               ELSE [given |-> TRUE,
                     has   |-> {i \in 1..n : i \in B => how[i] = "badlen"},
                     at    |-> [i \in {j \in 1..n : j \in B => how[j] = "badlen"} |->
                                  IF i \in B THEN <<0>>
                                  ELSE pts[Cardinality({j \in (1..i) \ B : TRUE})]]]
  /\ triangles = <<>>
  /\ delaunay = NoDelaunay
  /\ initialized = FALSE
  /\ useManualTriangulation = FALSE
  /\ call = NoCall
  /\ SessionIdle
  /\ kind = "none"
  /\ simplexVertices = <<>>
  /\ docSet = <<>>
  /\ op = "none"
  /\ queryPoint = <<>>
  /\ baryWeights = <<>>
  /\ isInside = FALSE
  /\ semantics = NoSemantics

\* tessellation.reason: the constructor sets no such property and
\* buildTriangulation assigns none, so that reading it gives undefined
reason == "undefined"

\* the fields of the tessellation object as one record
This ==
  [documents |-> documents, coordinates |-> coordinates, triangles |-> triangles,
   delaunay |-> delaunay, initialized |-> initialized,
   useManualTriangulation |-> useManualTriangulation]

\* buildTriangulation() on the object this: the objects it may leave (several
\* where the library is free in the triangulation it returns). Its statements
\* are all inside one try whose catch sets initialized to false and returns
\* this; the one throw they could reach, the constructor of SemanticTriangle
\* on a document without id, is excluded by the filter on the documents.
buildTriangulation(this) ==
  LET validDocuments == ValidDocuments(this.documents, this.coordinates)
      points == PointsOf(validDocuments, this.coordinates)
      withDelaunay(order) ==
        LET built == TrianglesFrom(FlatTriangles(order), validDocuments)
        IN  [this EXCEPT !.documents = validDocuments,
                         !.useManualTriangulation = FALSE,
                         !.delaunay = [built |-> TRUE, points |-> points,
                                       triangles |-> FlatTriangles(order)],
                         !.triangles = built,
                         !.initialized = (Len(built) > 0)]
  IN  IF Len(this.documents) < 3 \/ ~this.coordinates.given
      THEN {[this EXCEPT !.initialized = FALSE]}
      ELSE IF Len(validDocuments) < 3
      THEN {[this EXCEPT !.initialized = FALSE]}
      ELSE IF Len(points) < 3
      THEN {[this EXCEPT !.documents = validDocuments, !.initialized = FALSE]}
      ELSE IF Len(validDocuments) <= 3
      THEN {[this EXCEPT !.documents = validDocuments,
                         !.useManualTriangulation = TRUE,
                         !.triangles = <<SemanticTriangle(validDocuments[1],
                                                          validDocuments[2],
                                                          validDocuments[3])>>,
                         !.initialized = TRUE]}
      ELSE {withDelaunay(order) :
              order \in UNION {TriangleOrders(T) : T \in Triangulations(points)}}

\* tessellation.buildTriangulation(), called once on the new object
BuildTriangulation ==
  /\ call.name = "none"
  /\ \E r \in buildTriangulation(This) :
        /\ documents' = r.documents
        /\ triangles' = r.triangles
        /\ delaunay' = r.delaunay
        /\ initialized' = r.initialized
        /\ useManualTriangulation' = r.useManualTriangulation
  /\ call' = [name |-> "buildTriangulation", point |-> <<>>, found |-> 0,
              ret |-> "this", weights |-> <<>>, semantics |-> NoSemantics]
  /\ UNCHANGED <<coordinates, simplexVars, sessionVars>>


\* the points a caller may ask about: the grid and one ring around it
Query2 == ((0 - 1)..(MaxCoord + 1)) \X ((0 - 1)..(MaxCoord + 1))

\* a result of findContainingTriangle: ret is "null", "undefined" or
\* "triangle", found being then the position of the triangle in this.triangles
Found(r, i) == [ret |-> r, found |-> i]

\* delaunay.triangles[triangleIndex * 3 + k], k = 0, 1, 2; 0 stands for the
\* undefined read past the end of the array
DocIndices(triangleIndex) ==
  [k \in 1..3 |->
     IF 3 * (triangleIndex - 1) + k <= Len(delaunay.triangles)
     THEN delaunay.triangles[3 * (triangleIndex - 1) + k]
     ELSE 0]

\* this.triangles.find(...): the first triangle whose vertices include the
\* document of every index in docIndices; undefined when there is none
MatchingTriangle(docIndices) ==
  LET every(t) ==
        \A k \in 1..3 :
           /\ docIndices[k] >= 1 /\ docIndices[k] <= Len(documents)
           /\ \E v \in 1..3 :
                 triangles[t].vertices[v].id = documents[docIndices[k]].id
      hits == {t \in 1..Len(triangles) : every(t)}
  IN  IF hits = {} THEN Found("undefined", 0)
      ELSE Found("triangle", CHOOSE t \in hits : \A u \in hits : t <= u)

\* the coordinates of the vertices of a triangle that are defined
VertexCoordinates(triangle) ==
  LET ids == SelectSeq(triangle.id, LAMBDA i : HasCoordinates(coordinates, i))
  IN  [k \in 1..Len(ids) |-> coordinates.at[ids[k]]]

\* what delaunay.find(x, y) may return for the point: an index of a nearest
\* point (one of several when there is a tie to break); 0 when no
\* triangulation was built and find is not reached. find returns -1 for a NaN
\* argument only, and the points asked about are numbers.
FindChoices(point) ==
  IF delaunay.built THEN DelaunayFind(delaunay.points, point) ELSE {0}

\* findContainingTriangle(point) when delaunay.find returns triangleIndex
findContainingTriangleAt(point, triangleIndex) ==
  IF ~initialized THEN Found("null", 0)
  ELSE IF useManualTriangulation /\ Len(triangles) = 0 THEN Found("null", 0)
  ELSE IF useManualTriangulation /\ Len(VertexCoordinates(triangles[1])) # 3
  THEN Found("null", 0)
  ELSE IF useManualTriangulation /\ ~delaunay.built THEN Found("null", 0)
  ELSE IF ~delaunay.built THEN Found("null", 0)
  ELSE MatchingTriangle(DocIndices(triangleIndex))

\* findContainingTriangle(point): the results it may return
findContainingTriangle(point) ==
  {findContainingTriangleAt(point, triangleIndex) : triangleIndex \in FindChoices(point)}

\* tessellation.findContainingTriangle(point) on the built object; a query
\* leaves the tessellation as it is, so one query is followed per behaviour
FindContainingTriangle(point) ==
  /\ call.name = "buildTriangulation"
  /\ \E r \in findContainingTriangle(point) :
        call' = [name |-> "findContainingTriangle", point |-> point,
                 found |-> r.found, ret |-> r.ret, weights |-> <<>>,
                 semantics |-> NoSemantics]
  /\ UNCHANGED <<documents, coordinates, triangles, delaunay, initialized,
                 useManualTriangulation, simplexVars, sessionVars>>

\* faulty variant: a point with a weight outside [0,1] is answered by null
analyzePoint_inside(point, r) ==
  LET null == [name |-> "analyzePoint", point |-> point, found |-> 0,
               ret |-> "null", weights |-> <<>>, semantics |-> NoSemantics]
  IN  IF ~initialized THEN null
      ELSE IF r.ret # "triangle" THEN null
      ELSE LET triangle == triangles[r.found]
               vertices == VertexCoordinates(triangle)
           IN  IF Len(vertices) # 3 \/ \E k \in 1..3 : Len(vertices[k]) # 2
               THEN null
               ELSE IF ~IsPointInside(point, vertices) THEN null
               ELSE LET weights == CalculateBarycentricCoordinates(point, vertices)
                    IN  [name |-> "analyzePoint", point |-> point,
                         found |-> r.found, ret |-> "analysis",
                         weights |-> weights,
                         semantics |-> getInteriorPointSemantics(triangle, weights)]

\* analyzePoint(point), r being what its call of findContainingTriangle
\* returns: the call and its result
analyzePoint(point, r) ==
  LET null == [name |-> "analyzePoint", point |-> point, found |-> 0,
               ret |-> "null", weights |-> <<>>, semantics |-> NoSemantics]
  IN  IF ~initialized THEN null
      ELSE IF r.ret # "triangle" THEN null
      ELSE LET triangle == triangles[r.found]
               vertices == VertexCoordinates(triangle)
           IN  IF Len(vertices) # 3 THEN null
               ELSE LET weights ==
                          IF \E k \in 1..3 : Len(vertices[k]) # 2
                          THEN <<NaN, NaN, NaN>>
                          ELSE CalculateBarycentricCoordinates(point, vertices)
                    IN  [name |-> "analyzePoint", point |-> point,
                         found |-> r.found, ret |-> "analysis",
                         weights |-> weights,
                         semantics |-> getInteriorPointSemantics(triangle, weights)]

\* tessellation.analyzePoint(point) on the built object
AnalyzePoint(point) ==
  /\ call.name = "buildTriangulation"
  /\ \E r \in findContainingTriangle(point) : call' = analyzePoint(point, r)
  /\ UNCHANGED <<documents, coordinates, triangles, delaunay, initialized,
                 useManualTriangulation, simplexVars, sessionVars>>

TessNext ==
  \/ BuildTriangulation
  \/ \E point \in Query2 : FindContainingTriangle(point)
  \/ \E point \in Query2 : AnalyzePoint(point)

TessSpec == TessInit /\ [][TessNext]_vars

(* -------------------- SemanticTriangulationView ----------------------- *)
\* bound on the number of tessellations the view replaces by a new one
MaxRebuilds == 1

\* bound on the number of distinct points analysed on one tessellation
MaxAnalysed == 2

\* the pointer is moved over the points with coordinates in 0..MaxPointer
MaxPointer == 1

ViewPoints == (0..MaxPointer) \X (0..MaxPointer)

\* no simplex is looked at on its own
SimplexIdle ==
  /\ kind = "none"
  /\ simplexVertices = <<>>
  /\ docSet = <<>>
  /\ op = "none"
  /\ queryPoint = <<>>
  /\ baryWeights = <<>>
  /\ isInside = FALSE
  /\ semantics = NoSemantics

\* the projected points the backend returns for the documents of the pool
PoolPoints == <<<<0, 0>>, <<0, MaxCoord>>, <<MaxCoord, 0>>, <<MaxCoord, MaxCoord>>>>

\* the props of the view: documents of the pool, in their order, and either
\* no coordinates or the coordinates of the first h documents of the pool
ViewProps ==
  {[documents |-> [i \in 1..Len(ids) |-> Doc(ids[i], TRUE, PlainEmbedding(ids[i]))],
    coordinates |-> IF h = 0 THEN [given |-> FALSE, has |-> {}, at |-> <<>>]
                    ELSE [given |-> TRUE, has |-> 1..h,
                          at |-> [i \in 1..h |-> PoolPoints[i]]]] :
     ids \in {SelectSeq(<<1, 2, 3, 4>>, LAMBDA i : i \in S) : S \in SUBSET (1..4)},
     h \in {0, 3, 4}}

\* new SemanticTessellation(docs, coords)
NewTessellation(docs, coords) ==
  [documents |-> docs, coordinates |-> coords, triangles |-> <<>>,
   delaunay |-> NoDelaunay, initialized |-> FALSE, useManualTriangulation |-> FALSE]

\* faulty variant: a SemanticTriangle with the id of one built before is not
\* created again, the object built before is taken
Allocate_cached(h, objects) ==
  LET known(k) == {a \in 1..Len(h) : h[a].id = objects[k].id}
  IN  [heap |-> h \o objects,
       refs |-> [k \in 1..Len(objects) |->
                   IF known(k) # {} THEN CHOOSE a \in known(k) : TRUE
                   ELSE Len(h) + k]]

\* new SemanticTriangle(...), once for each triangle of the build: the
\* objects are new ones, h being the objects that exist
Allocate(h, objects) ==
  [heap |-> h \o objects, refs |-> [k \in 1..Len(objects) |-> Len(h) + k]]

\* the build effect of the view, run with new props: the tessellation state
\* becomes null, or a new tessellation that has been built
ViewBuildEffect(props) ==
  /\ tessellation = "object" => Len(priorBuilds) < MaxRebuilds
  /\ LET docsWithCoords ==
           SelectSeq(props.documents,
                     LAMBDA d : props.coordinates.given
                                /\ HasCoordinates(props.coordinates, d.id))
         set(r, t) ==
           /\ documents' = r.documents
           /\ coordinates' = r.coordinates
           /\ triangles' = r.triangles
           /\ delaunay' = r.delaunay
           /\ initialized' = r.initialized
           /\ useManualTriangulation' = r.useManualTriangulation
           /\ tessellation' = t
     IN  IF \/ Len(props.documents) < 3 \/ ~props.coordinates.given
            \/ Len(docsWithCoords) < 3
         THEN /\ set(NewTessellation(<<>>, [given |-> FALSE, has |-> {}, at |-> <<>>]),
                     "null")
              /\ call' = NoCall
              /\ UNCHANGED heap
              /\ triangleRefs' = <<>>
         ELSE \E r \in buildTriangulation(NewTessellation(docsWithCoords,
                                                          props.coordinates)) :
                /\ set(r, "object")
                /\ call' = [NoCall EXCEPT !.name = "buildTriangulation", !.ret = "this"]
                /\ heap' = Allocate(heap, r.triangles).heap
                /\ triangleRefs' = Allocate(heap, r.triangles).refs
  /\ priorBuilds' = IF tessellation = "object"
                    THEN Append(priorBuilds, [triangles |-> triangleRefs,
                                              simplices |-> triangles])
                    ELSE priorBuilds
  /\ findMemo' = {}
  /\ analyses' = {}
  /\ UNCHANGED <<simplexVars, finderVars, sceneVars, demoVars>>

\* the triangles the view draws contain the point: a handler of a triangle
\* runs for the points of its path
OnDrawnTriangle(point) ==
  \E t \in 1..Len(triangles) :
     LET vertices == VertexCoordinates(triangles[t])
     IN  /\ Len(vertices) = 3
         /\ InClosedTriangle(point, vertices[1], vertices[2], vertices[3])

\* delaunay.find is a function of the point: what it answered once for a
\* point it answers again
FindAnswers(point) ==
  IF \E m \in findMemo : m.point = point
  THEN {m.index : m \in {n \in findMemo : n.point = point}}
  ELSE FindChoices(point)

\* the results returned so far, with the one for the point counted
Analysed(point, result) ==
  IF \E a \in analyses : a.point = point
  THEN {IF a.point = point THEN [a EXCEPT !.times = 2] ELSE a : a \in analyses}
  ELSE analyses \cup {[point |-> point, result |-> result, times |-> 1]}

\* faulty variant: the triangle found is moved to the front of this.triangles
ViewAnalyze_cache(point) ==
  /\ tessellation = "object" /\ initialized
  /\ OnDrawnTriangle(point)
  /\ (\E a \in analyses : a.point = point) \/ Cardinality(analyses) < MaxAnalysed
  /\ \E triangleIndex \in FindAnswers(point) :
       LET result == analyzePoint(point, findContainingTriangleAt(point, triangleIndex))
       IN  /\ call' = result
           /\ findMemo' = findMemo \cup {[point |-> point, index |-> triangleIndex]}
           /\ analyses' = Analysed(point, result)
           /\ triangles' = IF result.found = 0 THEN triangles
                           ELSE <<triangles[result.found]>>
                                \o SelectSeq(triangles,
                                        LAMBDA x : x # triangles[result.found])
  /\ UNCHANGED <<documents, coordinates, delaunay, initialized,
                 useManualTriangulation, simplexVars, finderVars, sceneVars, demoVars,
                 tessellation, heap, triangleRefs, priorBuilds>>

\* the mousemove and the click handler of a drawn triangle, the pointer being
\* at the point: both call tessellation.analyzePoint(point)
ViewAnalyze(point) ==
  /\ tessellation = "object" /\ initialized
  /\ OnDrawnTriangle(point)
  /\ (\E a \in analyses : a.point = point) \/ Cardinality(analyses) < MaxAnalysed
  /\ \E triangleIndex \in FindAnswers(point) :
       LET result == analyzePoint(point, findContainingTriangleAt(point, triangleIndex))
       IN  /\ call' = result
           /\ findMemo' = findMemo \cup {[point |-> point, index |-> triangleIndex]}
           /\ analyses' = Analysed(point, result)
           /\ triangles' = triangles
  /\ UNCHANGED <<documents, coordinates, delaunay, initialized,
                 useManualTriangulation, simplexVars, finderVars, sceneVars, demoVars,
                 tessellation, heap, triangleRefs, priorBuilds>>

\* the view is mounted without props
ViewInit == TessIdle /\ SimplexIdle

ViewNext ==
  \/ \E props \in ViewProps : ViewBuildEffect(props)
  \/ \E point \in ViewPoints : ViewAnalyze(point)

ViewSpec == ViewInit /\ [][ViewNext]_vars

(* --------------------- TetrahedronVisualization ----------------------- *)
\* bound on the number of times the effect that creates the tetrahedron
\* registers its handlers
MaxListeners == 2

\* the four documents of selection b
SceneDocs(b) == [i \in 1..4 |-> Doc(4 * (b - 1) + i, TRUE, PlainEmbedding(i))]

\* the vertices of the mesh, as the coordinates of the documents give them
\* after scaling; they are written in the frame of the grid
SceneTetrahedra ==
  {UnitTetrahedron,
   <<<<0, 0, 0>>, <<MaxCoord, MaxCoord, 0>>, <<MaxCoord, 0, MaxCoord>>,
     <<0, MaxCoord, MaxCoord>>>>}

\* the props of the visualization: the documents of a selection, or three of
\* them only, and the vertices their coordinates give, or no coordinates
SceneProps ==
  {[documents |-> d, vertices |-> v] :
     d \in {SceneDocs(1), SceneDocs(2), SubSeq(SceneDocs(1), 1, 3)},
     v \in SceneTetrahedra \cup {<<>>}}

\* the effect that creates the tetrahedron, run with new props: it removes
\* the objects of the scene and, when the props give four documents with
\* coordinates, creates the mesh and registers a click and a mousemove
\* handler whose closures hold the data of this tetrahedron. No handler is
\* removed: the cleanup effect removes objects only.
CreateTetrahedra(props) ==
  /\ Len(listeners) < MaxListeners
  /\ IF Len(props.documents) < 4 \/ props.vertices = <<>>
     THEN /\ sceneObjects' = 0
          /\ UNCHANGED <<tetrahedra, listeners>>
     ELSE LET createdTetrahedronData ==
                [build |-> Len(listeners) + 1, docSet |-> props.documents,
                 vertices |-> props.vertices]
          IN  /\ sceneObjects' = Len(listeners) + 1
              /\ tetrahedra' = <<createdTetrahedronData>>
              /\ listeners' = Append(listeners, createdTetrahedronData)
  /\ delivered' = <<>>
  /\ UNCHANGED <<tessVars, simplexVars, finderVars, viewVars, demoVars>>

\* what a handler computes for the point where the ray meets the mesh of its
\* tetrahedron
HandlerResult(currentTetra, point) ==
  LET baryCoords == calculateBarycentricCoordinates3D(point, currentTetra.vertices)
      result == calculateSemanticInterpolation(baryCoords, currentTetra.docSet)
  IN  [build |-> currentTetra.build, documents |-> currentTetra.docSet,
       vertices |-> currentTetra.vertices, point |-> point, weights |-> baryCoords,
       isInside |-> isPointInsideTetrahedron(point, currentTetra.vertices[1],
                                             currentTetra.vertices[2],
                                             currentTetra.vertices[3],
                                             currentTetra.vertices[4]),
       contributions |-> result.contributions]

\* where the ray of an event meets the mesh of each registered handler:
\* nowhere (NoPoint), or at a point of the mesh. The meshes of different
\* builds are met independently of each other.
RayHits(hits) ==
  \A k \in 1..MaxListeners :
     IF k <= Len(listeners)
     THEN hits[k] # NoPoint => OnMesh(hits[k], listeners[k].vertices)
     ELSE hits[k] = NoPoint

\* the results of the handlers the ray makes report, in the order of their
\* registration
Reports(hits) ==
  LET hit == SelectSeq([k \in 1..Len(listeners) |-> k], LAMBDA k : hits[k] # NoPoint)
  IN  [i \in 1..Len(hit) |-> HandlerResult(listeners[hit[i]], hits[hit[i]])]

\* a click on the renderer's element: every registered handleMouseClick runs
\* and, where its ray meets its mesh, calls onPointSelected. The handlers
\* leave the scene and the registered handlers as they are, so one event is
\* followed after each run of the effect.
DispatchClick(hits) ==
  /\ listeners # <<>>
  /\ delivered = <<>>
  /\ RayHits(hits)
  /\ LET reports == Reports(hits)
     IN  delivered' = [i \in 1..Len(reports) |->
                         [event |-> "click", data |-> reports[i]]]
  /\ UNCHANGED <<tessVars, simplexVars, finderVars, viewVars, demoVars, tetrahedra, listeners,
                 sceneObjects>>

\* a mousemove on the renderer's element: every registered handleMouseMove
\* runs and, where its ray meets its mesh, calls setHoverInfo with its analysis
DispatchMouseMove(hits) ==
  /\ listeners # <<>>
  /\ delivered = <<>>
  /\ RayHits(hits)
  /\ LET reports == Reports(hits)
     IN  delivered' = [i \in 1..Len(reports) |->
                         [event |-> "mousemove", data |-> reports[i]]]
  /\ UNCHANGED <<tessVars, simplexVars, finderVars, viewVars, demoVars, tetrahedra, listeners,
                 sceneObjects>>

\* the scene, camera, renderer and controls exist; no tetrahedron yet
SceneInit == TessIdle /\ SimplexIdle

SceneNext ==
  \/ \E props \in SceneProps : CreateTetrahedra(props)
  \/ \E hits \in [1..MaxListeners -> Grid3 \cup {NoPoint}] : DispatchClick(hits)
  \/ \E hits \in [1..MaxListeners -> Grid3 \cup {NoPoint}] : DispatchMouseMove(hits)

SceneSpec == SceneInit /\ [][SceneNext]_vars

(* --------- SemanticTriangulationDemo and TetrahedronDemo: loadData ----- *)
\* the items of the domain that can be selected
MaxItems == 5

\* bound on the number of embedding requests awaiting their response
MaxInFlight == 2

\* the selections of the context: items 1 and 2 with any of the others, in
\* the order of the panel
Selections ==
  {SelectSeq([i \in 1..MaxItems |-> i], LAMBDA i : i <= 2 \/ i \in S) :
     S \in SUBSET (3..MaxItems)}

\* the number of selected items a page needs, and the number it takes
MinSelected(d) == IF d = "2d" THEN 3 ELSE 4

SliceLimit(d) == IF d = "2d" THEN 10 ELSE 4

\* selectedItems.slice(0, limit).map(...): the ids of the documents to embed
docsToEmbed(d, items) ==
  SubSeq(items, 1, IF Len(items) < SliceLimit(d) THEN Len(items) ELSE SliceLimit(d))

\* docsToEmbed.map(docData => new Document(docData)); TetrahedronDemo gives
\* each document the embedding of the response
finalDocuments(d, ids) ==
  [r \in 1..Len(ids) |->
     IF d = "3d" THEN Doc(ids[r], TRUE, PlainEmbedding(ids[r]))
     ELSE Doc(ids[r], FALSE, <<>>)]

\* data.coordinates_2d or data.coordinates_3d of the response to a request:
\* one projected point for each document of the request
ResponseCoordinates(d, ids) ==
  LET point(r) == IF d = "2d" THEN <<(r - 1) \div (MaxCoord + 1), (r - 1) % (MaxCoord + 1)>>
                  ELSE UnitTetrahedron[r]
      rank(i) == CHOOSE r \in 1..Len(ids) : ids[r] = i
  IN  [given |-> TRUE, has |-> {ids[r] : r \in 1..Len(ids)},
       at |-> [i \in {ids[r] : r \in 1..Len(ids)} |-> point(rank(i))]]

\* the effect run when selectedItems changes (a domain being open): loadData
\* up to its await. It clears the documents and the coordinates, and either
\* reports a selection that is too small or sends the embedding request.
\* Requests sent before stay as they are: nothing cancels them.
LoadData(items) ==
  /\ demo # "none"
  /\ items # selectedItems
  /\ Len(inFlight) < MaxInFlight
  /\ selectedItems' = items
  /\ demoDocuments' = <<>>
  /\ demoCoordinates' = [given |-> FALSE, has |-> {}, at |-> <<>>]
  /\ IF Len(items) >= MinSelected(demo)
     THEN /\ demoLoading' = TRUE
          /\ demoError' = "null"
          /\ inFlight' = Append(inFlight, docsToEmbed(demo, items))
     ELSE /\ demoLoading' = FALSE
          /\ demoError' = "selection"
          /\ UNCHANGED inFlight
  /\ UNCHANGED <<tessVars, simplexVars, finderVars, viewVars, sceneVars, demo>>

\* the response to request k arrives with the coordinates (and embeddings):
\* loadData continues after its await with the docsToEmbed of its own call
\* and sets the documents and the coordinates of the page
EmbedResponse(k) ==
  /\ demo # "none"
  /\ k <= Len(inFlight)
  /\ demoDocuments' = finalDocuments(demo, inFlight[k])
  /\ demoCoordinates' = ResponseCoordinates(demo, inFlight[k])
  /\ demoLoading' = FALSE
  /\ inFlight' = SubSeq(inFlight, 1, k - 1) \o SubSeq(inFlight, k + 1, Len(inFlight))
  /\ UNCHANGED <<tessVars, simplexVars, finderVars, viewVars, sceneVars, demo,
                 selectedItems, demoError>>

\* request k fails, or its response lacks the success flag or the data:
\* the catch block of loadData sets the error
EmbedFailure(k) ==
  /\ demo # "none"
  /\ k <= Len(inFlight)
  /\ demoError' = "failed"
  /\ demoLoading' = FALSE
  /\ inFlight' = SubSeq(inFlight, 1, k - 1) \o SubSeq(inFlight, k + 1, Len(inFlight))
  /\ UNCHANGED <<tessVars, simplexVars, finderVars, viewVars, sceneVars, demo,
                 selectedItems, demoDocuments, demoCoordinates>>

\* a page mounted in an open domain with nothing selected: loadData has run
\* once and reported the selection
DemoInit ==
  /\ NoTessellation
  /\ SimplexIdle
  /\ FinderIdle
  /\ ViewIdle
  /\ SceneIdle
  /\ demo \in {"2d", "3d"}
  /\ selectedItems = <<>>
  /\ inFlight = <<>>
  /\ demoDocuments = <<>>
  /\ demoCoordinates = [given |-> FALSE, has |-> {}, at |-> <<>>]
  /\ demoError = "selection"
  /\ demoLoading = FALSE

DemoNext ==
  \/ \E items \in Selections : LoadData(items)
  \/ \E k \in 1..MaxInFlight : EmbedResponse(k)
  \/ \E k \in 1..MaxInFlight : EmbedFailure(k)

DemoSpec == DemoInit /\ [][DemoNext]_vars

(* ------------------- geometry the claims are stated in ---------------- *)
Collinear(v) == Area2(v[1], v[2], v[3]) = 0

\* six times the signed volume of the tetrahedron a, b, c, d
Volume6(a, b, c, d) == dot(crossVectors(subVectors(b, a), subVectors(c, a)), subVectors(d, a))

Coplanar(v) == Volume6(v[1], v[2], v[3], v[4]) = 0

NonDegenerate ==
  IF kind = "triangle" THEN ~Collinear(simplexVertices) ELSE ~Coplanar(simplexVertices)

\* the signed barycentric coordinates of p in the tetrahedron v, by Cramer's
\* rule, each multiplied by the volume: p is strictly outside when one of them
\* has the sign opposite to the volume's
SignedCoordinates(p, v) ==
  <<Volume6(p, v[2], v[3], v[4]), Volume6(v[1], p, v[3], v[4]),
    Volume6(v[1], v[2], p, v[4]), Volume6(v[1], v[2], v[3], p)>>

StrictlyOutsideTetrahedron(p, v) ==
  \E i \in 1..4 : SignedCoordinates(p, v)[i] * Volume6(v[1], v[2], v[3], v[4]) < 0

\* the weight vector that is 1 at i and 0 elsewhere
UnitWeights(n, i) == [k \in 1..n |-> IF k = i THEN RInt(1) ELSE RInt(0)]

BarycentricOps ==
  {"calculateBarycentricCoordinates", "getInteriorPointSemantics",
   "calculateBarycentricCoordinates3D", "handleMouseClick"}

\* the projected points of the vertices of triangle t of the tessellation
Corners(t) == [k \in 1..3 |-> coordinates.at[triangles[t].id[k]]]

\* triangle t of the tessellation contains p: no barycentric weight of p in
\* it is negative (so that all of them are in [0,1])
Contains(t, p) ==
  /\ \A k \in 1..3 : Len(Corners(t)[k]) = 2
  /\ InClosedTriangle(p, Corners(t)[1], Corners(t)[2], Corners(t)[3])

\* p is outside the convex hull of the vertices of the triangles
OutsideHull(p) ==
  LET V == {c \in {Corners(t)[k] : t \in 1..Len(triangles), k \in 1..3} : Len(c) = 2}
  IN  /\ \A a \in V, b \in V, c \in V : ~InClosedTriangle(p, a, b, c)
      /\ \A a \in V, b \in V :
            ~(Area2(a, b, p) = 0 /\ Dist2(a, p) + Dist2(p, b) <= Dist2(a, b))

(* -------------------------------- C1 ---------------------------------- *)
\* C1: on an initialized tessellation of more than 3 points, a simplex that
\* findContainingTriangle(p) returns contains p, and when p lies in some
\* simplex of the tessellation a simplex containing p is returned.
C1_LocateIsCorrect ==
  (/\ initialized /\ Len(documents) > 3
   /\ call.name = "findContainingTriangle") =>
     /\ call.ret = "triangle" => Contains(call.found, call.point)
     /\ (\E t \in 1..Len(triangles) : Contains(t, call.point)) =>
           call.ret = "triangle" /\ Contains(call.found, call.point)

(* -------------------------------- C2 ---------------------------------- *)
\* C2: on a tessellation built from exactly 3 valid documents,
\* findContainingTriangle(p) returns the single simplex if and only if the
\* three barycentric weights of p are in [0,1], and none otherwise.
C2_SingleTriangleMembership ==
  (/\ initialized /\ Len(documents) = 3
   /\ call.name = "findContainingTriangle") =>
     /\ call.ret = "triangle" <=> IsPointInside(call.point, Corners(1))
     /\ call.ret = "triangle" => call.found = 1

(* -------------------------------- C3 ---------------------------------- *)
\* C3: for a query point outside the convex hull of the simplices of an
\* initialized tessellation, findContainingTriangle returns no simplex, and
\* so does analyzePoint.
C3_OutsideHullIsNull ==
  (/\ initialized
   /\ call.name \in {"findContainingTriangle", "analyzePoint"}
   /\ OutsideHull(call.point)) =>
     call.ret \in {"null", "undefined"}

(* -------------------------------- C4 ---------------------------------- *)
\* C4: for every non-degenerate triangle and every non-degenerate tetrahedron,
\* and every query point, interior or exterior, the returned weights sum to 1.
C4_WeightsSumToOne ==
  (op \in BarycentricOps /\ NonDegenerate) => RSumSeq(baryWeights) = RInt(1)

\* C4 witness: the weights of a point strictly outside a non-degenerate
\* tetrahedron have been computed.
C4_Witness ==
  /\ kind = "tetrahedron" /\ op = "calculateBarycentricCoordinates3D"
  /\ NonDegenerate
  /\ StrictlyOutsideTetrahedron(queryPoint, simplexVertices)
  /\ RSumSeq(baryWeights) = RInt(1)

(* -------------------------------- C5 ---------------------------------- *)
\* C5: for every non-degenerate triangle and tetrahedron, at the coordinate of
\* vertex i the weight of vertex i is 1 and every other weight is 0.
C5_VertexWeights ==
  (op \in BarycentricOps /\ NonDegenerate) =>
     \A i \in 1..Len(simplexVertices) :
        queryPoint = simplexVertices[i] =>
           baryWeights = UnitWeights(Len(simplexVertices), i)

\* C5 witness: the weights of the second vertex of a non-degenerate triangle
\* have been computed.
C5_Witness ==
  /\ kind = "triangle" /\ op = "calculateBarycentricCoordinates"
  /\ NonDegenerate
  /\ queryPoint = simplexVertices[2]
  /\ baryWeights = <<RInt(0), RInt(1), RInt(0)>>

(* -------------------------------- C6 ---------------------------------- *)
\* C6: for a triangle whose three vertices are collinear the barycentric
\* computation returns exactly the equal weights [1/3, 1/3, 1/3], for every
\* query point.  (The returned array carries no degenerate flag at all.)
C6_CollinearEqualWeights ==
  (kind = "triangle" /\ op = "calculateBarycentricCoordinates"
     /\ Collinear(simplexVertices)) => baryWeights = Thirds

(* -------------------------------- C7 ---------------------------------- *)
Quarters == <<Rat(1, 4), Rat(1, 4), Rat(1, 4), Rat(1, 4)>>

\* C7: for a tetrahedron whose four vertices are coplanar the 3D weight
\* computation yields the equal-weight fallback [1/4, 1/4, 1/4, 1/4] (and so no
\* undefined value) for every query point.
C7_CoplanarEqualWeights ==
  (kind = "tetrahedron" /\ op \in BarycentricOps /\ Coplanar(simplexVertices))
     => baryWeights = Quarters

(* -------------------------------- C8 ---------------------------------- *)
\* C8: for a non-degenerate tetrahedron and any point strictly outside it,
\* isPointInsideTetrahedron reports false, while
\* calculateBarycentricCoordinates3D returns four well-defined non-negative
\* weights that sum to 1.
C8_OutsideFlagAndWeights ==
  (kind = "tetrahedron" /\ NonDegenerate /\ queryPoint # NoPoint
     /\ StrictlyOutsideTetrahedron(queryPoint, simplexVertices)) =>
       /\ op = "isPointInsideTetrahedron" => ~isInside
       /\ op = "calculateBarycentricCoordinates3D" =>
            /\ Len(baryWeights) = 4
            /\ \A i \in 1..4 : IsFinite(baryWeights[i]) /\ RLe(RInt(0), baryWeights[i])
            /\ RSumSeq(baryWeights) = RInt(1)

\* C8 witness: the inside test has been applied to a point strictly outside a
\* non-degenerate tetrahedron and has answered false.
C8_Witness ==
  /\ kind = "tetrahedron" /\ op = "isPointInsideTetrahedron"
  /\ NonDegenerate
  /\ StrictlyOutsideTetrahedron(queryPoint, simplexVertices)
  /\ ~isInside

(* -------------------------------- C9 ---------------------------------- *)
\* the documents' embeddings are all present and of one length (not zero)
EqualLengthEmbeddings ==
  /\ \A i \in 1..Len(docSet) : docSet[i].hasEmbedding
  /\ Len(docSet[1].embedding) > 0
  /\ \A i \in 1..Len(docSet) : Len(docSet[i].embedding) = Len(docSet[1].embedding)

\* sum over the vertices i of weight i times component j of embedding i
Blend(w, j) ==
  IF Len(docSet) = 3
  THEN RAdd(RAdd(RMul(w[1], RInt(docSet[1].embedding[j])),
                 RMul(w[2], RInt(docSet[2].embedding[j]))),
            RMul(w[3], RInt(docSet[3].embedding[j])))
  ELSE RAdd(RAdd(RMul(w[1], RInt(docSet[1].embedding[j])),
                 RMul(w[2], RInt(docSet[2].embedding[j]))),
            RAdd(RMul(w[3], RInt(docSet[3].embedding[j])),
                 RMul(w[4], RInt(docSet[4].embedding[j]))))

\* C9: for every weight vector and equal-length vertex embeddings the combined
\* embedding is, component by component, the sum of weight i times embedding
\* i; at a vertex's own coordinate (of a non-degenerate simplex) it is that
\* vertex's embedding.
C9_CombinedEmbedding ==
  (op \in {"getInteriorPointSemantics", "handleMouseClick"} /\ EqualLengthEmbeddings) =>
     /\ semantics.ret = "object"
     /\ Len(semantics.localCombined) = Len(docSet[1].embedding)
     /\ \A j \in 1..Len(docSet[1].embedding) :
           semantics.localCombined[j] = Blend(baryWeights, j)
     /\ kind = "triangle" => semantics.combinedEmbedding = semantics.localCombined
     /\ \A i \in 1..Len(docSet) :
           (NonDegenerate /\ queryPoint = simplexVertices[i]) =>
              semantics.localCombined = RVec(docSet[i].embedding)

\* C9 witness: the semantics of the third vertex of a non-degenerate triangle
\* have been computed, and the combined embedding is the third embedding.
C9_Witness ==
  /\ kind = "triangle" /\ op = "getInteriorPointSemantics"
  /\ EqualLengthEmbeddings /\ NonDegenerate
  /\ queryPoint = simplexVertices[3]
  /\ semantics.combinedEmbedding = RVec(docSet[3].embedding)

(* -------------------------------- C10 --------------------------------- *)
\* some vertex embedding is missing, or its length differs from another's
\* (an empty embedding included)
UnusableEmbeddings == ~EqualLengthEmbeddings

SemanticOps == {"getInteriorPointSemantics", "handleMouseClick"}

HeldEmbeddings ==
  [i \in 1..3 |-> IF docSet[i].hasEmbedding THEN docSet[i].embedding
                  ELSE [j \in 1..EmbeddingDim |-> 0]]

AtLeast(x, a, b) == x[1] * b >= a * x[2]

Below(x, a, b) == x[1] * b < a * x[2]

AtMost(x, a, b) == x[1] * b <= a * x[2]

\* x - y is below a / b
GapBelow(x, y, a, b) == (x[1] * y[2] - y[1] * x[2]) * b < a * (x[2] * y[2])

\* the vertices of w of maximum weight
Largest(w) == {m \in 1..Len(w) : \A i \in 1..Len(w) : w[m][1] * w[i][2] >= w[i][1] * w[m][2]}

\* the type the rules of the triangle classifier give w, first match first
TriangleRule(w) ==
  LET m == CHOOSE i \in Largest(w) : TRUE
      least == CHOOSE l \in 1..3 : \A i \in 1..3 : w[l][1] * w[i][2] <= w[i][1] * w[l][2]
  IN  IF /\ \A i \in 1..3 : AtLeast(w[i], 1, 10) /\ AtMost(w[i], 6, 10)
         /\ GapBelow(w[m], w[least], 3, 10)
      THEN "balanced_intersection"
      ELSE IF AtLeast(w[m], 6, 10) /\ \A i \in 1..3 \ {m} : Below(w[i], 1, 10)
      THEN "single_document"
      ELSE IF AtLeast(w[m], 6, 10) /\ \E i \in 1..3 \ {m} : AtLeast(w[i], 1, 10)
      THEN "dominant_with_influence"
      ELSE IF \E l \in 1..3 : /\ Below(w[l], 1, 10)
                              /\ \A i \in 1..3 \ {l} : AtLeast(w[i], 3, 10)
      THEN "paired_intersection"
      ELSE "complex_weighted_combination"

TriangleClassifierOps == {"interpretAsSetOperations", "getInteriorPointSemantics"}

(* -------------------------------- C11 --------------------------------- *)
\* C11: for every normalized 3-weight vector the triangle classifier returns
\* the type of the first rule that matches, in the order balanced_intersection,
\* single_document, dominant_with_influence, paired_intersection, else
\* complex_weighted_combination; [0.33, 0.33, 0.34] is balanced_intersection.
C11_FirstMatchingRule ==
  (kind = "triangle" /\ op \in TriangleClassifierOps) =>
     /\ semantics.setOperation.type = TriangleRule(baryWeights)
     /\ baryWeights = DefaultWeights =>
           semantics.setOperation.type = "balanced_intersection"

C11_Witness ==
  /\ kind = "triangle" /\ op = "interpretAsSetOperations"
  /\ baryWeights = DefaultWeights
  /\ semantics.setOperation.type = "balanced_intersection"

(* -------------------------------- C12 --------------------------------- *)
\* the vectors with weight 0.45 at two vertices and 0.1 at the third
TwoNearHalves(w) ==
  /\ Len(w) = 3
  /\ \E l \in 1..3 : w[l] = Rat(1, 10) /\ \A i \in 1..3 \ {l} : w[i] = Rat(45, 100)

\* C12: a 3-weight vector whose two largest weights are 0.45 each and whose
\* third weight is 0.1, in any vertex order, is classified as
\* paired_intersection, and the description names the two weight-0.45 vertices.
C12_PairAtOneTenth ==
  (kind = "triangle" /\ op \in TriangleClassifierOps /\ TwoNearHalves(baryWeights)) =>
     /\ semantics.setOperation.type = "paired_intersection"
     /\ {semantics.setOperation.named[k] : k \in 1..Len(semantics.setOperation.named)}
           = {i \in 1..3 : baryWeights[i] = Rat(45, 100)}

\* C12 as amended: such a vector is classified as complex_weighted_combination
\* and no vertex is named, the third weight not being below 0.1; when
\* paired_intersection is returned, the third weight is below 0.1 and the
\* two vertices named are the other two, the larger first.
C12_PairNeedsThirdBelowTenth ==
  (kind = "triangle" /\ op \in TriangleClassifierOps) =>
     /\ TwoNearHalves(baryWeights) =>
           /\ semantics.setOperation.type = "complex_weighted_combination"
           /\ semantics.setOperation.named = <<>>
     /\ semantics.setOperation.type = "paired_intersection" =>
           \E l \in 1..3 :
              /\ Below(baryWeights[l], 1, 10)
              /\ Len(semantics.setOperation.named) = 2
              /\ {semantics.setOperation.named[1], semantics.setOperation.named[2]}
                    = (1..3) \ {l}
              /\ AtLeast(RSub(baryWeights[semantics.setOperation.named[1]],
                              baryWeights[semantics.setOperation.named[2]]), 0, 1)

C12_Witness ==
  /\ kind = "triangle" /\ op = "interpretAsSetOperations"
  /\ baryWeights = <<Rat(45, 100), Rat(1, 10), Rat(45, 100)>>
  /\ semantics.setOperation.type = "complex_weighted_combination"

C12_PairWitness ==
  /\ kind = "triangle" /\ op = "interpretAsSetOperations"
  /\ baryWeights = <<Rat(1, 20), Rat(45, 100), Rat(1, 2)>>
  /\ semantics.setOperation = SetOperation("paired_intersection", <<3, 2>>)

(* -------------------------------- C13 --------------------------------- *)
C13_Example ==
  /\ kind = "triangle" /\ op \in TriangleClassifierOps
  /\ baryWeights = <<Rat(7, 10), Rat(2, 10), Rat(1, 10)>>

\* C13: whenever the triangle classifier returns dominant_with_influence, the
\* vertex it names as dominant has the maximum weight and the vertices it
\* names as influences are exactly the other vertices of weight >= 0.1;
\* [0.7, 0.2, 0.1] names the weight-0.7 vertex as dominant.
C13_DominantAndInfluences ==
  /\ (/\ kind = "triangle" /\ op \in TriangleClassifierOps
      /\ semantics.setOperation.type = "dominant_with_influence") =>
        LET named == semantics.setOperation.named
        IN  /\ Len(named) >= 2
            /\ named[1] \in Largest(baryWeights)
            /\ {named[k] : k \in 2..Len(named)}
                  = {i \in (1..3) \ {named[1]} : AtLeast(baryWeights[i], 1, 10)}
  /\ C13_Example =>
        /\ semantics.setOperation.type = "dominant_with_influence"
        /\ semantics.setOperation.named[1] = 1

C13_Witness ==
  /\ C13_Example
  /\ semantics.setOperation = SetOperation("dominant_with_influence", <<1, 2, 3>>)

(* -------------------------------- C14 --------------------------------- *)
\* x + y is above a / b
SumAbove(x, y, a, b) == (x[1] * y[2] + y[1] * x[2]) * b > a * (x[2] * y[2])

\* the two largest weights of w sum to more than 0.8
TopTwoAbove(w) == \E i, j \in 1..4 : i # j /\ SumAbove(w[i], w[j], 8, 10)

\* the type the rules of the tetrahedron classifier give w, the last
\* condition of the pair rule being tail
TetrahedronRule(w, tail) ==
  IF \E i \in 1..4 : ~AtMost(w[i], 6, 10) THEN "dominant"
  ELSE IF \A i \in 1..4 : ~AtMost(w[i], 2, 10) THEN "balanced_intersection"
  ELSE IF TopTwoAbove(w) /\ tail THEN "paired_documents"
  ELSE "complex_mix"

\* C14: for every normalized 4-weight vector the tetrahedron classifier
\* returns dominant if the max weight > 0.6; otherwise balanced_intersection
\* if every weight > 0.2; otherwise paired_documents if the two largest
\* weights sum to more than 0.8 and the smallest weight is < 0.1; otherwise
\* complex_mix.
C14_SmallestBelowTenth ==
  (kind = "tetrahedron" /\ op = "calculateSemanticInterpolation") =>
     semantics.setOperation.type =
        TetrahedronRule(baryWeights, \E i \in 1..4 : Below(baryWeights[i], 1, 10))

\* C14 as amended: the pair rule requires the third largest weight to be
\* < 0.1, that is, at most two weights to be >= 0.1.
C14_ThirdLargestBelowTenth ==
  (kind = "tetrahedron" /\ op = "calculateSemanticInterpolation") =>
     semantics.setOperation.type =
        TetrahedronRule(baryWeights,
           Cardinality({i \in 1..4 : AtLeast(baryWeights[i], 1, 10)}) <= 2)

C14_Witness ==
  /\ kind = "tetrahedron" /\ op = "calculateSemanticInterpolation"
  /\ baryWeights = <<Rat(45, 100), Rat(4, 10), Rat(1, 10), Rat(1, 20)>>
  /\ semantics.setOperation.type = "complex_mix"

(* ------------- the documents of a tessellation, as the claims see them - *)
\* d has an id and a projected point of two elements
Usable(d) ==
  /\ d.id # 0
  /\ HasCoordinates(coordinates, d.id)
  /\ Len(coordinates.at[d.id]) = 2

\* the usable documents, in input order: the i-th of them supplies point i
\* (buildTriangulation removes no usable document from this.documents)
UsableDocuments == SelectSeq(documents, Usable)

Built == call.name # "none"

(* -------------------------------- C15 --------------------------------- *)
\* C15: when more than 3 valid points remain, the built tessellation has one
\* simplex per triangle of the Delaunay triangulation, and the three vertices
\* of each simplex are the documents that supplied the three corner points
\* of that triangle.
C15_VerticesSupplyCorners ==
  (Built /\ Len(UsableDocuments) > 3) =>
     /\ delaunay.built
     /\ 3 * Len(triangles) = Len(delaunay.triangles)
     /\ \A t \in 1..Len(triangles) :
           {triangles[t].vertices[k].id : k \in 1..3}
              = {UsableDocuments[delaunay.triangles[3 * (t - 1) + k]].id : k \in 1..3}

(* -------------------------------- C16 --------------------------------- *)
\* C16: when exactly 3 valid documents remain after filtering,
\* buildTriangulation creates exactly one simplex whose vertices are those
\* three documents in input order, does not run the Delaunay triangulation,
\* and marks the tessellation initialized.
C16_ThreeDocumentsOneSimplex ==
  (Built /\ Len(UsableDocuments) = 3) =>
     /\ Len(triangles) = 1
     /\ triangles[1].vertices = UsableDocuments
     /\ ~delaunay.built
     /\ initialized

(* -------------------------------- C17 --------------------------------- *)
\* C17: after buildTriangulation every vertex of every simplex is a document
\* with a valid 2-element projected point; a document whose coordinate entry
\* is missing or not of length 2 is not in the tessellation's document set
\* and in no simplex.
C17_OnlyUsableDocuments ==
  (Built /\ initialized) =>
     /\ \A t \in 1..Len(triangles) : \A k \in 1..3 : Usable(triangles[t].vertices[k])
     /\ \A i \in 1..Len(documents) : Usable(documents[i])

(* -------------------------------- C18 --------------------------------- *)
\* C18: buildTriangulation never throws: whenever fewer than 3 documents
\* with a valid point remain, or the documents or the coordinates are
\* missing, it returns the tessellation with initialized = false.
C18_FailsSoftly ==
  call.name = "buildTriangulation" =>
     /\ call.ret = "this"
     /\ (Len(UsableDocuments) < 3 \/ ~coordinates.given) =>
           ~initialized /\ triangles = <<>>

C18_Witness ==
  /\ call.name = "buildTriangulation" /\ call.ret = "this"
  /\ Len(documents) = 3 /\ Len(UsableDocuments) = 2
  /\ \E i \in 1..3 : HasCoordinates(coordinates, documents[i].id) /\ ~Usable(documents[i])
  /\ ~initialized

(* -------------------------------- C19 --------------------------------- *)
\* the usable documents are at least 3 and their points lie on one line
AllCollinear ==
  /\ Len(UsableDocuments) >= 3
  /\ \A i, j, k \in 1..Len(UsableDocuments) :
        Area2(coordinates.at[UsableDocuments[i].id], coordinates.at[UsableDocuments[j].id],
              coordinates.at[UsableDocuments[k].id]) = 0

\* C19: every tessellation returned with initialized = false carries a reason
\* string, "insufficient_points" when too few valid points remained and
\* "degenerate_geometry" when all points are collinear.
C19_ReasonIsCarried ==
  (call.name = "buildTriangulation" /\ ~initialized) =>
     /\ reason \in {"insufficient_points", "degenerate_geometry"}
     /\ Len(UsableDocuments) < 3 => reason = "insufficient_points"
     /\ AllCollinear => reason = "degenerate_geometry"

(* -------------------------------- C20 --------------------------------- *)
TriangleTypes ==
  {"balanced_intersection", "single_document", "dominant_with_influence",
   "paired_intersection", "complex_weighted_combination"}

\* w are the barycentric weights of p in the triangle a, b, c, which is not flat
WeightsOf(w, p, a, b, c) ==
  /\ Len(w) = 3
  /\ w[1][1] * Area2(a, b, c) = Area2(p, b, c) * w[1][2]
  /\ w[2][1] * Area2(a, b, c) = Area2(a, p, c) * w[2][2]
  /\ w[3][1] * Area2(a, b, c) = Area2(a, b, p) * w[3][2]
  /\ \A i \in 1..3 : w[i][2] # 0

\* C20: on an initialized tessellation analyzePoint(p) returns null if and
\* only if findContainingTriangle(p) finds no simplex; otherwise it returns a
\* result with that simplex, its three weights for p and a classification.
C20_NullIffNotFound ==
  (initialized /\ call.name = "analyzePoint") =>
     /\ call.ret = "null" =>
           \E r \in findContainingTriangle(call.point) : r.ret # "triangle"
     /\ call.ret # "null" =>
           /\ call.ret = "analysis"
           /\ \E r \in findContainingTriangle(call.point) :
                 r.ret = "triangle" /\ r.found = call.found
           /\ Len(call.weights) = 3
           /\ (/\ \A k \in 1..3 : Len(Corners(call.found)[k]) = 2
               /\ Area2(Corners(call.found)[1], Corners(call.found)[2],
                        Corners(call.found)[3]) # 0) =>
                 WeightsOf(call.weights, call.point, Corners(call.found)[1],
                           Corners(call.found)[2], Corners(call.found)[3])
           /\ call.semantics.ret = "object"
           /\ call.semantics.setOperation.type \in TriangleTypes

C20_Witness ==
  /\ initialized /\ call.name = "analyzePoint" /\ call.ret = "analysis"
  /\ Contains(call.found, call.point)
  /\ \E i \in 1..3 : call.weights[i] = Rat(1, 2)

C20_NullWitness ==
  /\ initialized /\ call.name = "analyzePoint" /\ call.ret = "null"
  /\ ~useManualTriangulation

(* -------------------------------- C21 --------------------------------- *)
\* C21: when no vertex embedding is available but the weights are, the 3D
\* semantic interpolation returns a result of type positional_mix whose
\* contribution i carries input weight i, with similarity null and no
\* combined embedding.
C21_PositionalMix ==
  (/\ kind = "tetrahedron" /\ op = "handleMouseClick"
   /\ \A i \in 1..4 : ~docSet[i].hasEmbedding) =>
     /\ semantics.ret = "object"
     /\ semantics.setOperation.type = "positional_mix"
     /\ Len(semantics.contributions) = 4
     /\ \A i \in 1..4 :
           /\ semantics.contributions[i].id = docSet[i].id
           /\ semantics.contributions[i].weight = baryWeights[i]
           /\ semantics.contributions[i].similarity = SimNull
     /\ ~semantics.hasCombined
     /\ semantics.localCombined = <<>>

C21_Witness ==
  /\ kind = "tetrahedron" /\ op = "handleMouseClick"
  /\ \A i \in 1..4 : ~docSet[i].hasEmbedding
  /\ semantics.setOperation.type = "positional_mix"
  /\ baryWeights = <<RInt(0), Rat(1, 2), Rat(1, 2), RInt(0)>>

(* -------------------------------- C22 --------------------------------- *)
\* the inner product of two vectors of numbers
Inner(a, b) == RSumSeq([j \in 1..Len(a) |-> RMul(a[j], b[j])])

\* the number a similarity stands for is 1, is 1/2, is 0
SimIsOne(s) ==
  \/ s.kind = "num" /\ s.sq = RInt(1)
  \/ s.kind = "cos" /\ s.sgn = 1 /\ s.sq = RInt(1)

SimIsHalf(s) ==
  \/ s.kind = "num" /\ s.sq = Rat(1, 2)
  \/ s.kind = "cos" /\ (s.sgn = 0 \/ s.sq = RInt(0))

SimIsZero(s) ==
  \/ s.kind = "num" /\ s.sq = RInt(0)
  \/ s.kind = "cos" /\ s.sgn = 0 - 1 /\ s.sq = RInt(1)

\* a result computed from the embeddings, all of its numbers finite
Interpolated ==
  /\ op \in SemanticOps /\ EqualLengthEmbeddings
  /\ semantics.ret = "object"
  /\ Len(semantics.localCombined) = Len(docSet[1].embedding)
  /\ \A j \in 1..Len(semantics.localCombined) : IsFinite(semantics.localCombined[j])

\* the combined embedding and embedding i point the same way, are orthogonal,
\* point opposite ways (both of norm above 0); one of them has norm 0
Parallel(i) ==
  LET a == semantics.localCombined
      b == RVec(docSet[i].embedding)
  IN  /\ RLt(RInt(0), Inner(a, b))
      /\ RMul(Inner(a, b), Inner(a, b)) = RMul(Inner(a, a), Inner(b, b))

Opposite(i) ==
  LET a == semantics.localCombined
      b == RVec(docSet[i].embedding)
  IN  /\ RLt(Inner(a, b), RInt(0))
      /\ RMul(Inner(a, b), Inner(a, b)) = RMul(Inner(a, a), Inner(b, b))

ZeroNorm(i) ==
  \/ Inner(semantics.localCombined, semantics.localCombined) = RInt(0)
  \/ Inner(RVec(docSet[i].embedding), RVec(docSet[i].embedding)) = RInt(0)

Orthogonal(i) ==
  /\ ~ZeroNorm(i)
  /\ Inner(semantics.localCombined, RVec(docSet[i].embedding)) = RInt(0)

\* C22: perVertexSimilarity[i] is the cosine similarity of the combined
\* embedding and embedding i, 1 for parallel vectors and 0 for orthogonal
\* vectors, and it is 0, not NaN or undefined, when either vector has norm 0.
C22_SimilarityIsCosine ==
  Interpolated =>
     \A i \in 1..Len(docSet) :
        LET s == semantics.contributions[i].similarity
        IN  /\ Parallel(i) => SimIsOne(s)
            /\ Orthogonal(i) => SimIsZero(s)
            /\ ZeroNorm(i) => s = SimNum(RInt(0))

\* C22 as amended: perVertexSimilarity[i] is the cosine of the combined
\* embedding and embedding i moved to the range 0..1, (cosine + 1) / 2: 1 for
\* parallel vectors, 1/2 for orthogonal vectors, 0 for opposite vectors; it
\* is the number 0 when either vector has norm 0.
C22_SimilarityIsRescaledCosine ==
  Interpolated =>
     \A i \in 1..Len(docSet) :
        LET s == semantics.contributions[i].similarity
            a == semantics.localCombined
            b == RVec(docSet[i].embedding)
        IN  /\ Parallel(i) => SimIsOne(s)
            /\ Orthogonal(i) => SimIsHalf(s)
            /\ Opposite(i) => SimIsZero(s)
            /\ ZeroNorm(i) => s = SimNum(RInt(0))
            /\ ~ZeroNorm(i) =>
                  /\ s.kind = "cos"
                  /\ s.sgn = Sign(Inner(a, b)[1])
                  /\ RMul(s.sq, RMul(Inner(a, a), Inner(b, b)))
                        = RMul(Inner(a, b), Inner(a, b))

C22_Witness ==
  /\ Interpolated /\ kind = "triangle"
  /\ Orthogonal(2) /\ SimIsHalf(semantics.contributions[2].similarity)
  /\ Parallel(1) /\ SimIsOne(semantics.contributions[1].similarity)

C22_ZeroNormWitness ==
  /\ Interpolated
  /\ \E i \in 1..Len(docSet) :
        ZeroNorm(i) /\ semantics.contributions[i].similarity = SimNum(RInt(0))

(* -------------------------------- C23 --------------------------------- *)
\* p is the centroid of the simplex v: n times p is the sum of the n vertices
Centroid(p, v) ==
  /\ Len(p) = Len(v[1])
  /\ \A c \in 1..Len(p) :
        Len(v) * p[c] = RSumSeq([i \in 1..Len(v) |-> RInt(v[i][c])])[1]

\* C23: for every non-degenerate triangle the weights at its centroid are
\* [1/3, 1/3, 1/3], and for every non-degenerate tetrahedron the weights at
\* its centroid are [1/4, 1/4, 1/4, 1/4].
C23_CentroidWeights ==
  (/\ op \in BarycentricOps /\ NonDegenerate
   /\ Centroid(queryPoint, simplexVertices)) =>
     baryWeights = (IF kind = "triangle" THEN Thirds ELSE Quarters)

C23_Witness ==
  /\ op = "calculateBarycentricCoordinates3D" /\ NonDegenerate
  /\ Centroid(queryPoint, simplexVertices)
  /\ baryWeights = Quarters

C23_TriangleWitness ==
  /\ op = "calculateBarycentricCoordinates" /\ NonDegenerate
  /\ Centroid(queryPoint, simplexVertices)
  /\ baryWeights = Thirds

(* -------------------------------- C29 --------------------------------- *)
\* p lies in the closed tetrahedron v: none of its signed barycentric
\* coordinates has the sign opposite to the volume's
InClosedTetrahedron(p, v) ==
  \A i \in 1..4 : SignedCoordinates(p, v)[i] * Volume6(v[1], v[2], v[3], v[4]) >= 0

\* C29: for every non-degenerate tetrahedron, in either vertex orientation,
\* isPointInsideTetrahedron(p) is true if and only if p lies in the closed
\* tetrahedron (interior, faces, edges and vertices included).
C29_InsideIffClosed ==
  (kind = "tetrahedron" /\ op = "isPointInsideTetrahedron" /\ NonDegenerate) =>
     (isInside <=> InClosedTetrahedron(queryPoint, simplexVertices))

\* C29 witness: a point on a face, not a vertex, of a tetrahedron of negative
\* orientation has been tested and found inside.
C29_Witness ==
  /\ kind = "tetrahedron" /\ op = "isPointInsideTetrahedron"
  /\ Volume6(simplexVertices[1], simplexVertices[2], simplexVertices[3],
             simplexVertices[4]) < 0
  /\ \E i \in 1..4 : SignedCoordinates(queryPoint, simplexVertices)[i] = 0
  /\ \A i \in 1..4 : queryPoint # simplexVertices[i]
  /\ isInside

\* a point strictly inside a tetrahedron of positive orientation has been
\* tested and found inside
C29_PositiveWitness ==
  /\ kind = "tetrahedron" /\ op = "isPointInsideTetrahedron"
  /\ Volume6(simplexVertices[1], simplexVertices[2], simplexVertices[3],
             simplexVertices[4]) > 0
  /\ \A i \in 1..4 : SignedCoordinates(queryPoint, simplexVertices)[i] > 0
  /\ isInside

(* -------------------------------- C30 --------------------------------- *)
\* the weights w represent p in the simplex v: the sum of w[i] times vertex
\* i is p, coordinate by coordinate
Represents(w, v, p) ==
  /\ Len(w) = Len(v)
  /\ \A c \in 1..Len(p) :
        RSumSeq([i \in 1..Len(v) |-> RMul(w[i], RInt(v[i][c]))]) = RInt(p[c])

\* C30: for a non-degenerate triangle and any point p the weights represent
\* p, and for a non-degenerate tetrahedron and any point p inside it the
\* volume-ratio weights represent p.
C30_WeightsRepresentPoint ==
  (/\ op \in BarycentricOps /\ NonDegenerate
   /\ kind = "tetrahedron" => InClosedTetrahedron(queryPoint, simplexVertices)) =>
     Represents(baryWeights, simplexVertices, queryPoint)

\* C30 witness: the weights of a point outside a non-degenerate triangle have
\* been computed, one of them negative, and represent the point.
C30_Witness ==
  /\ kind = "triangle" /\ op = "calculateBarycentricCoordinates" /\ NonDegenerate
  /\ \E i \in 1..3 : RLt(baryWeights[i], RInt(0))
  /\ Represents(baryWeights, simplexVertices, queryPoint)

\* the weights of a point strictly inside a non-degenerate tetrahedron have
\* been computed and represent the point
C30_TetrahedronWitness ==
  /\ kind = "tetrahedron" /\ op = "calculateBarycentricCoordinates3D" /\ NonDegenerate
  /\ \A i \in 1..4 : SignedCoordinates(queryPoint, simplexVertices)[i] # 0
  /\ InClosedTetrahedron(queryPoint, simplexVertices)
  /\ Represents(baryWeights, simplexVertices, queryPoint)

(* -------------------------------- C26 --------------------------------- *)
\* the result of the analysis as getInteriorPointSemantics returned it
ReturnedSemantics ==
  getInteriorPointSemantics(SemanticTriangle(docSet[1], docSet[2], docSet[3]), baryWeights)

\* C26: an analysis result is never modified after it is returned: the
\* consumers suggestSearchTerms, generateSearchQuery and findMatchingDocuments
\* leave its contributions (order and weights) and its combined embedding
\* unchanged, so that contributions[i] keeps referring to simplex vertex i.
C26_ResultNotModified ==
  (kind = "triangle" /\ op = "MissingDocumentFinder") =>
     /\ semantics.contributions = ReturnedSemantics.contributions
     /\ semantics.combinedEmbedding = ReturnedSemantics.combinedEmbedding
     /\ \A i \in 1..3 : semantics.contributions[i].id = docSet[i].id

\* the consumers have run on a result whose contributions were already in
\* the order of their weights, and have left it as it was
C26_SortedWitness ==
  /\ kind = "triangle" /\ op = "MissingDocumentFinder"
  /\ finder.matchingDocuments # <<>>
  /\ semantics = ReturnedSemantics

(* -------------------------------- C24 --------------------------------- *)
\* C24: building a tessellation for a changed document set leaves every
\* Simplex of any previously built tessellation unchanged (same vertices,
\* embeddings and id), and the new tessellation shares no Simplex object with
\* a prior build.
C24_PriorSimplicesKept ==
  \A b \in 1..Len(priorBuilds) :
     /\ \A k \in 1..Len(priorBuilds[b].triangles) :
           heap[priorBuilds[b].triangles[k]] = priorBuilds[b].simplices[k]
     /\ \A k \in 1..Len(priorBuilds[b].triangles) : \A j \in 1..Len(triangleRefs) :
           priorBuilds[b].triangles[k] # triangleRefs[j]

\* C24 witness: a tessellation of three documents has been replaced by one of
\* four documents that has a triangle of the same three documents, which is
\* another object.
C24_Witness ==
  /\ tessellation = "object" /\ initialized
  /\ Len(priorBuilds) = 1 /\ Len(priorBuilds[1].triangles) = 1
  /\ Len(documents) = 4 /\ Len(triangleRefs) = 2
  /\ \E j \in 1..2 :
        /\ triangles[j].id = priorBuilds[1].simplices[1].id
        /\ heap[triangleRefs[j]] = triangles[j]
        /\ triangleRefs[j] # priorBuilds[1].triangles[1]

(* -------------------------------- C25 --------------------------------- *)
\* a query has been answered in this step
Queried == call'.name \in {"findContainingTriangle", "analyzePoint"}

\* C25: findContainingTriangle and analyzePoint leave the tessellation
\* unchanged (documents, coordinates, triangles, triangulation structure,
\* initialized flag), so that analysing the same point again after any sequence
\* of other queries yields an equal result.
C25_QueriesArePure ==
  /\ [][Queried => UNCHANGED <<documents, coordinates, triangles, delaunay,
                               initialized, useManualTriangulation, heap,
                               triangleRefs>>]_vars
  /\ [](call.name = "analyzePoint" =>
          \A a \in analyses : a.point = call.point => a.result = call)

\* C25 witness: a point for which delaunay.find has a tie to break has been
\* analysed, then another point, then the first point again, each with a
\* result that is not null.
C25_Witness ==
  /\ tessellation = "object" /\ call.name = "analyzePoint" /\ call.ret = "analysis"
  /\ Cardinality(FindChoices(call.point)) > 1
  /\ Cardinality(analyses) = 2
  /\ \A a \in analyses : a.result.ret = "analysis"
  /\ \E a \in analyses : a.point = call.point /\ a.times = 2 /\ a.result = call

(* -------------------------------- C27 --------------------------------- *)
\* C27: after the 3D document set or coordinates change and the tetrahedron
\* is rebuilt, every later click or hover is analysed only against the current
\* tetrahedron: no handler registered for a prior build still runs, and
\* onPointSelected is never invoked with the documents or vertices of a prior
\* build.
C27_OnlyCurrentTetrahedron ==
  (Len(listeners) > 1 /\ sceneObjects = Len(listeners)) =>
     \A i \in 1..Len(delivered) :
        /\ delivered[i].data.build = sceneObjects
        /\ delivered[i].data.documents = tetrahedra[1].docSet
        /\ delivered[i].data.vertices = tetrahedra[1].vertices

(* ------------------------------- C28 ---------------------------------- *)
\* what the page holds for a selection once its own request has succeeded
SelectionDocuments ==
  IF Len(selectedItems) >= MinSelected(demo)
  THEN finalDocuments(demo, docsToEmbed(demo, selectedItems))
  ELSE <<>>

SelectionCoordinates ==
  IF Len(selectedItems) >= MinSelected(demo)
  THEN ResponseCoordinates(demo, docsToEmbed(demo, selectedItems))
  ELSE [given |-> FALSE, has |-> {}, at |-> <<>>]

\* C28: once no embedding request is in flight, the documents and the
\* coordinates the page holds are those of the latest selection (or none,
\* when its request failed or the selection is too small): a response for
\* an older selection has not overwritten them
C28_LatestSelectionWins ==
  (demo # "none" /\ inFlight = <<>>) =>
     /\ demoDocuments \in {<<>>, SelectionDocuments}
     /\ demoCoordinates \in {[given |-> FALSE, has |-> {}, at |-> <<>>],
                             SelectionCoordinates}

====
